---- MODULE Spec2Model ----
(***************************************************************************)
(* AetherSense: the ECG routes of src/routes/ecg_routes.py, the breath    *)
(* check-in of main.py over utils/memory.py, and the Fitbit routes of     *)
(* src/routes/fitbit_routes.py over adapters/fitbit_adapter.py.           *)
(* upload_ecg_data: parsing of the file or body, column names and meta,   *)
(* mandatory-field drop, timestamp resolution, timezone override, sort,   *)
(* de-duplication and per-record forwarding to the event-logger service.  *)
(* get_ecg_events: fetch of the logger's events, window filter and        *)
(* projection of the surfaced kinds.                                      *)
(* breath_check_in: the per-user history of the last check-ins and the    *)
(* trend read from it.                                                    *)
(* login_to_fitbit, handle_fitbit_callback, get_live_hrv_data: the OAuth  *)
(* state check, the token exchange and refresh, the retried fetch of the  *)
(* HRV data and its normalization.                                        *)
(*                                                                         *)
(* A DataFrame is a sequence of rows; a row keeps its DataFrame index      *)
(* (idx), its timestamp cell and its signal cell.  Cells are tagged       *)
(* tuples so that parsing and formatting are real conversions:            *)
(*   <<"nan">>           a missing cell (NaN)                             *)
(*   <<"iso", s>>        the string "1970-01-01T00:00:0sZ"                *)
(*   <<"epoch", s>>      the digit string "s" (epoch seconds as text)     *)
(*   <<"num", n>>        the number n (a JSON number, an all-numeric CSV  *)
(*                       column)                                          *)
(*   <<"garbage">>       a string that is neither                         *)
(*   <<"ts", sec, ns>>   a pandas Timestamp (UTC), sec seconds and ns     *)
(*                       nanoseconds after the epoch                      *)
(*   <<"NaT">>           pandas NaT                                       *)
(*   <<"isostr", sec, ns>> the text Timestamp.isoformat() returns         *)
(*   <<"None">>          Python None (JSON null on the wire)              *)
(*   <<"str", s>>        any other string                                 *)
(*   <<"dict", pairs>>   a mapping, as its set of <<key, value>> pairs    *)
(***************************************************************************)
EXTENDS Integers, Sequences, FiniteSets, TLC

VARIABLES
    pc,                 \* position of the upload request
    request,            \* the upload request: file or body, and its content
    columns,            \* df.columns at line 103 (after reconciliation)
    rows,               \* df as it stands at line 106 (after reconciliation)
    tz_override,        \* the tz_override query parameter
    initial_rows,       \* line 106
    records_to_ingest,  \* line 145
    next_record,        \* position of the for loop of line 147
    ingested_count,     \* line 141 / 161
    posts,              \* the calls made to requests.post, in order
    response,           \* what the request returned
    query_pc,           \* position of the query request
    logger_events,      \* the events the event logger holds, in fetch order
    since,              \* the since query parameter
    until,              \* the until query parameter
    read_calls,         \* the calls made to requests.get
    fetch_outcome,      \* how the call of line 185 ended
    filtered_events_data, \* line 193
    query_response,     \* what the query returned
    user_memory,        \* utils/memory.py line 3: the deque of each user
    checkins,           \* the check-in requests received, in arrival order
    trend_info,         \* main.py line 51 / 53: the trend passed to generate_response
    checkin_response,   \* what the last check-in returned
    session,            \* request.session: the user's server-side session
    now,                \* time.time(), in seconds
    FAKE_HRV_DATA,      \* settings.FAKE_HRV_DATA
    fitbit_pc,          \* position of the Fitbit request being served
    fitbit_request,     \* the Fitbit request being served, or the last one
    fitbit_calls,       \* the calls that request made to Fitbit, in order
    adapter,            \* FitbitAdapter.access_token of that request
    attempt_number,     \* the attempts of fetch_data made so far
    fitbit_response,    \* what that request returned
    uploads,            \* the locals of each of the uploads served concurrently
    received            \* the forwarding calls the event logger served, in order

upload_vars == <<pc, request, columns, rows, tz_override, initial_rows,
                 records_to_ingest, next_record, ingested_count, posts, response>>

query_vars == <<query_pc, logger_events, since, until, read_calls, fetch_outcome,
                filtered_events_data, query_response>>

checkin_vars == <<user_memory, checkins, trend_info, checkin_response>>

fitbit_vars == <<session, now, FAKE_HRV_DATA, fitbit_pc, fitbit_request,
                 fitbit_calls, adapter, attempt_number, fitbit_response>>

concurrent_vars == <<uploads, received>>

vars == <<upload_vars, query_vars, checkin_vars, fitbit_vars, concurrent_vars>>

----------------------------------------------------------------------------
(* Bounds and input domains *)

MaxRows == 3

NsPerSec == 1000000000

NaN == <<"nan">>
NaT == <<"NaT">>
Garbage == <<"garbage">>

None == <<"None">>
Str(text) == <<"str", text>>
Dict(pairs) == <<"dict", pairs>>

\* the JSON records a body is drawn from: records lacking a mandatory key,
\* an unresolvable timestamp, resolvable records at two instants with two
\* signals and three spellings of an instant (ISO text, epoch-seconds text,
\* a number); two of them have a meta mapping (with a source, with a null
\* source), the others have no meta key
JsonRecords ==
    {[signal |-> Str("ecg")],
     [timestamp |-> <<"iso", 0>>],
     [timestamp |-> Garbage, signal |-> Str("ecg")],
     [timestamp |-> <<"iso", 0>>, signal |-> Str("ecg")],
     [timestamp |-> <<"iso", 0>>, signal |-> Str("r_peak"),
      meta |-> Dict({<<"source", Str("dev")>>})],
     [timestamp |-> <<"iso", 1>>, signal |-> Str("ecg"),
      meta |-> Dict({<<"source", None>>})],
     [timestamp |-> <<"epoch", 0>>, signal |-> Str("ecg")],
     [timestamp |-> <<"num", 1>>, signal |-> Str("r_peak")]}

NoTz == "none"
\* zone names and, for those dateutil knows, their offset from UTC in seconds
KnownZones == {"Asia/Tokyo"}
ZoneNames == KnownZones \cup {"Mars/Phobos"}
TzOverrides == {NoTz} \cup ZoneNames

Outcomes == {"ok", "Timeout", "HTTPError"}

----------------------------------------------------------------------------
(* Helpers on sequences *)

\* the rows of df at the positions in K, in their order in df
RowsAt(df, K) ==
    LET F[i \in 0..Len(df)] ==
            IF i = 0 THEN <<>>
            ELSE IF i \in K THEN Append(F[i - 1], df[i]) ELSE F[i - 1]
    IN  F[Len(df)]

isna(cell) == cell = NaN \/ cell = NaT \/ cell = None

\* a dropna whose subset leaves out 'signal'
DropnaTimestampOnly(df) ==
    RowsAt(df, {i \in 1..Len(df) : ~isna(df[i].timestamp)})

\* df.dropna(subset=['timestamp', 'signal'])
DropnaMandatory(df) ==
    RowsAt(df, {i \in 1..Len(df) : ~isna(df[i].timestamp) /\ ~isna(df[i].signal)})

\* df.dropna(subset=['timestamp'])
DropnaTimestamp(df) ==
    RowsAt(df, {i \in 1..Len(df) : ~isna(df[i].timestamp)})

----------------------------------------------------------------------------
(* Requests *)

\* the content of a file or body: JSON text (an array of records, an object
\* as its sequence of <<key, value>> fields, a scalar), CSV text (a header
\* and lines of cells), or bytes that are neither
JsonArray(recs) == <<"json", "array", recs>>
JsonObject(fields) == <<"json", "object", fields>>
JsonScalar == <<"json", "scalar", <<>>>>
Csv(header, lines) == <<"csv", header, lines>>
Malformed == <<"malformed", "", <<>>>>

\* a multipart upload of a file with a filename extension, or a bare body
\* with its Content-Type
FileRequest(ext, content) ==
    [via |-> "file", ext |-> ext, content_type |-> "multipart/form-data",
     content |-> content]
BodyRequest(content_type, content) ==
    [via |-> "body", ext |-> "", content_type |-> content_type,
     content |-> content]

CsvLines ==
    <<<<<<"iso", 1>>, Str("ecg"), <<"num", 8>>>>,
      <<<<"iso", 0>>, Str("r_peak"), NaN>>>>

LegacyJsonRecords ==
    <<[timestamp |-> <<"iso", 1>>, eventType |-> Str("ecg"), ecgChannel |-> <<"num", 8>>],
      [timestamp |-> <<"iso", 0>>, eventType |-> Str("r_peak")]>>

NewestJsonRecords ==
    <<[timestamp |-> <<"iso", 1>>, type |-> Str("ecg"), value |-> <<"num", 8>>],
      [timestamp |-> <<"iso", 0>>, type |-> Str("r_peak")]>>

\* records whose meta has no source key, or is an empty mapping
MetaJsonRecords ==
    <<[timestamp |-> <<"iso", 1>>, signal |-> Str("st_elev"),
       meta |-> Dict({<<"lead", Str("II")>>})],
      [timestamp |-> <<"iso", 0>>, signal |-> Str("ecg"), meta |-> Dict({})]>>

CanonicalJsonRecords ==
    <<[timestamp |-> <<"iso", 1>>, signal |-> Str("ecg"), value |-> <<"num", 8>>],
      [timestamp |-> <<"iso", 0>>, signal |-> Str("r_peak")]>>

\* requests of the other shapes: CSV files (header only, canonical and
\* legacy headers, flattened meta columns), JSON files and bodies of every
\* top-level shape, and the requests the parser refuses
FixedRequests ==
    {FileRequest("csv", Csv(<<"timestamp", "signal">>, <<>>)),
     FileRequest("csv", Csv(<<"timestamp", "signal", "value">>, CsvLines)),
     FileRequest("csv", Csv(<<"Timestamp", "Event Type", "ECG Channel">>, CsvLines)),
     FileRequest("csv", Csv(<<"timestamp", "signal", "meta.source", "meta.lead">>,
                            <<<<<<"iso", 0>>, Str("ecg"), Str("dev"), Str("II")>>,
                              <<<<"iso", 1>>, Str("st_elev"), NaN, Str("II")>>>>)),
     FileRequest("csv", Malformed),
     FileRequest("json", JsonArray(LegacyJsonRecords)),
     FileRequest("json", JsonArray(NewestJsonRecords)),
     FileRequest("json", JsonArray(CanonicalJsonRecords)),
     FileRequest("json", JsonObject(<<<<"records", JsonArray(CanonicalJsonRecords)>>>>)),
     FileRequest("json", JsonObject(<<<<"device", JsonScalar>>>>)),
     FileRequest("json", JsonScalar),
     FileRequest("json", Malformed),
     FileRequest("txt", Csv(<<"timestamp", "signal">>, <<>>)),
     BodyRequest("application/json",
                 JsonObject(<<<<"device", JsonScalar>>,
                              <<"records", JsonArray(CanonicalJsonRecords)>>,
                              <<"more", JsonArray(LegacyJsonRecords)>>>>)),
     BodyRequest("application/json",
                 JsonObject(<<<<"records", JsonArray(<<>>)>>,
                              <<"more", JsonArray(CanonicalJsonRecords)>>>>)),
     BodyRequest("application/json", JsonArray(MetaJsonRecords)),
     BodyRequest("application/json", JsonObject(<<<<"records", JsonArray(<<>>)>>>>)),
     BodyRequest("application/json", JsonObject(<<<<"device", JsonScalar>>>>)),
     BodyRequest("application/json", JsonObject(<<>>)),
     BodyRequest("application/json", JsonScalar),
     BodyRequest("application/json", Malformed),
     BodyRequest("text/plain", JsonArray(CanonicalJsonRecords))}

\* JSON bodies that are an array of n records
JsonBodies(n) ==
    {BodyRequest("application/json", JsonArray(recs)) : recs \in [1..n -> JsonRecords]}

Requests == FixedRequests \cup UNION {JsonBodies(n) : n \in 0..MaxRows}

----------------------------------------------------------------------------
(* Parsing: lines 35-74 *)

\* the outcome of a parsing step: an exception with its message, or a frame
Raised(msg) == [raised |-> TRUE, detail |-> msg, frame |-> [columns |-> {}, rows |-> <<>>]]
Parsed(frame) == [raised |-> FALSE, detail |-> <<>>, frame |-> frame]

\* lines 53-55 and 69-71: except Exception -> HTTPException(400, prefix + e)
Rewrapped(prefix, result) ==
    IF result.raised THEN Raised(<<prefix, result.detail>>) ELSE result

\* pd.DataFrame(list of dicts): the columns are the union of the keys, a key
\* a record lacks is NaN in its row
DataFrame(recs) ==
    LET cols == UNION {DOMAIN recs[i] : i \in 1..Len(recs)}
    IN  [columns |-> cols,
         rows |-> [i \in 1..Len(recs) |->
                     [c \in cols \cup {"idx"} |->
                        IF c = "idx" THEN i
                        ELSE IF c \in DOMAIN recs[i] THEN recs[i][c] ELSE NaN]]]

\* pd.read_csv: the columns are the header, a blank cell is NaN
ReadCsv(content) ==
    CASE content[1] = "malformed" -> Raised(<<"ParserError">>)
      [] content[1] = "csv" ->
            LET header == content[2]
                lines == content[3]
                cols == {header[j] : j \in 1..Len(header)}
            IN  Parsed([columns |-> cols,
                        rows |-> [i \in 1..Len(lines) |->
                                    [c \in cols \cup {"idx"} |->
                                       IF c = "idx" THEN i
                                       ELSE lines[i][CHOOSE j \in 1..Len(header) :
                                                        header[j] = c]]]])

\* next((v for v in json_data.values() if isinstance(v, list)), None)
FirstListField(fields) ==
    LET K == {i \in 1..Len(fields) : fields[i][2][2] = "array"}
    IN  IF K = {} THEN None
        ELSE fields[CHOOSE i \in K : \A j \in K : i <= j][2]

\* lines 41-49 and 58-68: json.loads, then the three shapes
ParseJson(content) ==
    CASE content[1] # "json" -> Raised(<<"JSONDecodeError">>)
      [] content[1] = "json" /\ content[2] = "array" ->
            Parsed(DataFrame(content[3]))
      [] content[1] = "json" /\ content[2] = "object" ->
            LET records_list == FirstListField(content[3])
            IN  IF records_list = None \/ records_list[3] = <<>>
                THEN Raised(<<"JSON object does not contain a list of records.">>)
                ELSE Parsed(DataFrame(records_list[3]))
      [] OTHER -> Raised(<<"Unsupported JSON structure.">>)

\* an extension check that lets any file through as CSV
ExtensionIsAny(ext) == IF ext = "json" THEN "json" ELSE "csv"

\* lines 38-52: filename.endswith('.csv') / endswith('.json')
ExtensionIs(ext) == IF ext \in {"csv", "json"} THEN ext ELSE "unsupported"

\* lines 35-74
ParseRequest(req) ==
    IF req.via = "file"
    THEN Rewrapped("Could not parse file",
             CASE ExtensionIs(req.ext) = "csv"  -> ReadCsv(req.content)
               [] ExtensionIs(req.ext) = "json" -> ParseJson(req.content)
               [] OTHER -> Raised(<<"Unsupported file format. Please upload CSV or JSON.">>))
    ELSE IF req.content_type = "application/json"
         THEN Rewrapped("Could not parse JSON body", ParseJson(req.content))
         ELSE Raised(<<"Unsupported Content-Type. Use multipart/form-data or application/json.">>)

----------------------------------------------------------------------------
(* Column names and meta: lines 80-101 *)

\* a column map without the CSV spelling of the event type
column_map_without_event_type(col) ==
    CASE col = "Timestamp"   -> "timestamp"
      [] col = "eventType"   -> "signal"
      [] col = "ecgChannel"  -> "value"
      [] col = "ECG Channel" -> "value"
      [] col = "type"        -> "signal"
      [] OTHER               -> col

\* lines 80-87
column_map(col) ==
    CASE col = "Timestamp"   -> "timestamp"
      [] col = "eventType"   -> "signal"
      [] col = "Event Type"  -> "signal"
      [] col = "ecgChannel"  -> "value"
      [] col = "ECG Channel" -> "value"
      [] col = "type"        -> "signal"
      [] OTHER               -> col

\* line 88: df.rename(columns=column_map)
RenameColumns(frame) ==
    LET cols == {column_map(c) : c \in frame.columns}
    IN  [columns |-> cols,
         rows |-> [i \in 1..Len(frame.rows) |->
                     [c \in cols \cup {"idx"} |->
                        frame.rows[i][CHOOSE o \in frame.columns \cup {"idx"} :
                                         column_map(o) = c]]]]

\* col.startswith('meta.') and col.replace('meta.', ''), on the flattened
\* names in use
MetaSubkey(col) ==
    CASE col = "meta.source" -> "source"
      [] col = "meta.lead"   -> "lead"
      [] col = "meta.label"  -> "label"
      [] OTHER               -> ""

\* lines 91-101
ReconcileMeta(frame, req) ==
    LET meta_cols == {c \in frame.columns : MetaSubkey(c) # ""}
    IN  IF "meta" \in frame.columns THEN frame
        ELSE IF req.via = "file" /\ ExtensionIs(req.ext) = "csv" /\ meta_cols # {}
        THEN [columns |-> (frame.columns \ meta_cols) \cup {"meta"},
              rows |-> [i \in 1..Len(frame.rows) |->
                          [c \in ((frame.columns \ meta_cols) \cup {"meta", "idx"}) |->
                             IF c = "meta"
                             THEN Dict({<<MetaSubkey(m), frame.rows[i][m]>> : m \in meta_cols})
                             ELSE frame.rows[i][c]]]]
        ELSE [columns |-> frame.columns \cup {"meta"},
              rows |-> [i \in 1..Len(frame.rows) |->
                          [c \in (frame.columns \cup {"meta", "idx"}) |->
                             IF c = "meta" THEN Dict({}) ELSE frame.rows[i][c]]]]

\* lines 76-103: the frame of a request that parsed
Standardized(req) == ReconcileMeta(RenameColumns(ParseRequest(req).frame), req)

\* a dropna that is given no subset to look up
MandatoryColumnsNone == {}

\* line 108: dropna(subset=['timestamp', 'signal']) raises KeyError when a
\* column of the subset is missing
MandatoryColumns == {"timestamp", "signal"}

----------------------------------------------------------------------------
(* Timestamp resolution *)

\* pd.to_datetime(ts, utc=True): an ISO string parses; a number is read in
\* the default unit, nanoseconds; a digit string or garbage raises.
ToDatetimeUtc(ts) ==
    CASE ts[1] = "iso" -> <<"ts", ts[2], 0>>
      [] ts[1] = "num" -> <<"ts", ts[2] \div NsPerSec, ts[2] % NsPerSec>>
      [] ts[1] = "ts"  -> ts
      [] OTHER         -> <<"raise">>

\* pd.to_datetime(float(ts), unit='s', utc=True): float() raises on garbage
ToDatetimeEpochSeconds(ts) ==
    CASE ts[1] = "epoch" -> <<"ts", ts[2], 0>>
      [] ts[1] = "num"   -> <<"ts", ts[2], 0>>
      [] OTHER           -> <<"raise">>

\* a resolver without the epoch-seconds fallback
parse_timestamp_iso_only(ts) ==
    IF ToDatetimeUtc(ts) # <<"raise">> THEN ToDatetimeUtc(ts) ELSE NaT

\* lines 113-120
parse_timestamp(ts) ==
    IF ToDatetimeUtc(ts) # <<"raise">> THEN ToDatetimeUtc(ts)
    ELSE IF ToDatetimeEpochSeconds(ts) # <<"raise">> THEN ToDatetimeEpochSeconds(ts)
    ELSE NaT

\* df['timestamp'] = df['timestamp'].apply(parse_timestamp)
ApplyParseTimestamp(df) ==
    [i \in 1..Len(df) |-> [df[i] EXCEPT !.timestamp = parse_timestamp(@)]]

----------------------------------------------------------------------------
(* Timezone override *)

\* a lookup that falls back to a default zone instead of returning None
gettz_with_default(name) == <<"tzinfo", name, IF name \in KnownZones THEN 32400 ELSE 0>>

\* tz.gettz(name): a tzinfo for a name dateutil knows, None otherwise
gettz(name) ==
    IF name \in KnownZones THEN <<"tzinfo", name, 32400>> ELSE <<"None">>

\* dateutil_parser.parse(x): parses a string to a naive datetime; anything
\* that is neither a string nor a stream (a pandas Timestamp, a number)
\* raises TypeError, an unparseable string raises ParserError.
dateutil_parse(x) ==
    CASE x[1] = "iso" -> <<"naive", x[2], 0>>
      [] OTHER        -> <<"raise">>

\* .replace(tzinfo=tzinfo).astimezone(tz.UTC): the wall clock read in the
\* zone, as a UTC instant
ReplaceTzinfoAsUtc(naive, tzinfo) == <<"ts", naive[2] - tzinfo[3], naive[3]>>

\* lines 126-133; raised stands for the HTTPException(400) of line 133
ApplyTzOverride(df, name) ==
    IF gettz(name) = <<"None">> THEN [raised |-> TRUE, df |-> <<>>]
    ELSE IF \E i \in 1..Len(df) : dateutil_parse(df[i].timestamp) = <<"raise">>
         THEN [raised |-> TRUE, df |-> <<>>]
    ELSE [raised |-> FALSE,
          df |-> [i \in 1..Len(df) |->
                    [df[i] EXCEPT !.timestamp =
                        ReplaceTzinfoAsUtc(dateutil_parse(@), gettz(name))]]]

\* line 135: pd.to_datetime(df['timestamp'], format='ISO8601', utc=True)
ToDatetimeColumn(df) ==
    [i \in 1..Len(df) |-> [df[i] EXCEPT !.timestamp = ToDatetimeUtc(@)]]

----------------------------------------------------------------------------
(* Sort and de-duplication *)

TsLeq(a, b) == a[2] < b[2] \/ (a[2] = b[2] /\ a[3] <= b[3])

Perms(n) == {p \in [1..n -> 1..n] : \A a, b \in 1..n : a # b => p[a] # p[b]}

\* df.sort_values(by='timestamp'): the default kind is 'quicksort', which is
\* not stable, so every ordering that is non-decreasing by timestamp is a
\* possible result.
SortValues(df) ==
    {s \in {[i \in 1..Len(df) |-> df[p[i]]] : p \in Perms(Len(df))} :
        \A i \in 1..(Len(s) - 1) : TsLeq(s[i].timestamp, s[i + 1].timestamp)}

SameKey(r1, r2) == r1.timestamp = r2.timestamp /\ r1.signal = r2.signal

\* de-duplication on the timestamp alone
DropDuplicatesByTimestamp(df) ==
    RowsAt(df, {i \in 1..Len(df) :
                  \A j \in 1..(i - 1) : df[j].timestamp # df[i].timestamp})

\* df.drop_duplicates(subset=['timestamp', 'signal'], keep='first')
DropDuplicates(df) ==
    RowsAt(df, {i \in 1..Len(df) : \A j \in 1..(i - 1) : ~SameKey(df[j], df[i])})

----------------------------------------------------------------------------
(* Stages of upload_ecg_data *)

\* lines 108: the rows with both mandatory fields
Cleaned(df) == DropnaMandatory(df)

\* lines 121-122: timestamps resolved, unresolvable rows dropped
Resolved(df) == DropnaTimestamp(ApplyParseTimestamp(Cleaned(df)))

\* lines 125-135: the frame with its final timestamps, or the exception
Zoned(df, tz) ==
    IF tz # NoTz THEN ApplyTzOverride(Resolved(df), tz)
    ELSE [raised |-> FALSE, df |-> ToDatetimeColumn(Resolved(df))]

\* line 145: df.astype(object).where(pd.notna(df), None).to_dict('records')
ToDictRecords(df) ==
    [i \in 1..Len(df) |->
        [c \in DOMAIN df[i] |->
            IF c # "idx" /\ isna(df[i][c]) THEN None ELSE df[i][c]]]

\* lines 136-138 and 145: the possible values of records_to_ingest
Sanitized(df, tz) ==
    {ToDictRecords(DropDuplicates(s)) : s \in SortValues(Zoned(df, tz).df)}

\* Timestamp.isoformat()
isoformat(ts) == <<"isostr", ts[2], ts[3]>>

\* lines 150-151: a NaN inside a meta mapping becomes None
NormalizeMeta(meta) ==
    IF meta[1] = "dict"
    THEN Dict({<<kv[1], IF isna(kv[2]) THEN None ELSE kv[2]>> : kv \in meta[2]})
    ELSE meta

\* the truth value of record.get('meta'): None and {} are falsy
Truthy(meta) == meta # None /\ meta # Dict({})

\* meta.get(key, default): the value stored under the key, whatever it is
DictGet(meta, key, default) ==
    IF \E kv \in meta[2] : kv[1] = key
    THEN (CHOOSE kv \in meta[2] : kv[1] = key)[2]
    ELSE default

\* line 155
SourceOf(meta) ==
    IF Truthy(meta) THEN DictGet(meta, "source", Str("unknown")) ELSE Str("unknown")

\* lines 148-157
Payload(record) ==
    LET data == [record EXCEPT !.timestamp = isoformat(@),
                               !.meta = NormalizeMeta(@)]
    IN  [type |-> "ecg_data", source |-> SourceOf(data.meta), data |-> data]

\* a loop that counts a record as ingested before the call is known to succeed
IngestedAfterUnchecked(count, outcome) == count + 1

\* lines 158-163: requests.post and raise_for_status inside try/except
IngestedAfter(count, outcome) == IF outcome = "ok" THEN count + 1 ELSE count

\* a loop in which the exception of a failed call leaves the loop
NextAfterAbort(i, outcome, n) == IF outcome = "ok" THEN i + 1 ELSE n + 1

\* line 147: the loop goes on to the next record whatever the outcome
NextAfter(i, outcome, n) == i + 1

\* the subtraction with its operands exchanged
dropped_count_swapped(initial, n) == n - initial

\* line 166
dropped_count(initial, n) == initial - n

SuccessResponse(ingested, dropped) ==
    [code |-> 200, status |-> "success",
     rows_ingested |-> ingested, rows_dropped |-> dropped]

\* an early return that reports nothing dropped
EmptyResponseZero(initial) == SuccessResponse(0, 0)

\* line 110
EmptyResponse(initial) == SuccessResponse(0, initial)

\* line 133
TimezoneError == [code |-> 400, detail |-> <<"Invalid timezone override">>]

\* lines 52, 55, 71 and 74: HTTPException(status_code=400, detail=...)
ParseError(detail) == [code |-> 400, detail |-> detail]

\* line 108 on a frame without one of the columns: the KeyError is not
\* caught and the framework answers 500
InternalServerError == [code |-> 500, detail |-> <<"Internal Server Error">>]

NoRequest == BodyRequest("", Malformed)

NoResponse == [code |-> 0]

----------------------------------------------------------------------------
(* get_ecg_events: inputs *)

MaxEvents == 3

\* a datetime query parameter, <<"datetime", seconds, tzaware>>: FastAPI
\* parses a text with an offset to an aware datetime and a text without one
\* to a naive datetime
Datetimes ==
    {<<"datetime", sec, TRUE>> : sec \in 0..3} \cup {<<"datetime", 1, FALSE>>}

NoDatetime == <<"datetime", 0, TRUE>>

\* the events the logger returns: the records an upload posts (the timestamp
\* as the text of isoformat(), meta a mapping or null) of every signal kind,
\* and events of other producers without a timestamp or without event_data
RawEvents ==
    {[event_data |-> [timestamp |-> <<"isostr", 1, 0>>, signal |-> Str("r_peak"),
                      meta |-> Dict({<<"source", Str("dev")>>})]],
     [event_data |-> [timestamp |-> <<"isostr", 1, 0>>, signal |-> Str("ecg"),
                      value |-> <<"num", 8>>, meta |-> Dict({})]],
     [event_data |-> [timestamp |-> <<"isostr", 2, 0>>, signal |-> Str("st_depr"),
                      meta |-> Dict({})]],
     [event_data |-> [timestamp |-> <<"isostr", 0, 0>>, signal |-> Str("st_elev"),
                      value |-> <<"num", 2>>,
                      meta |-> Dict({<<"lead", Str("II")>>, <<"source", Str("dev")>>})]],
     [event_data |-> [timestamp |-> <<"isostr", 2, 0>>, signal |-> Str("marked_event"),
                      meta |-> Dict({<<"label", Str("dizzy")>>})]],
     [event_data |-> [signal |-> Str("r_peak"), meta |-> Dict({})]],
     [type |-> "heartbeat"],
     [event_data |-> [timestamp |-> <<"isostr", 1, 0>>, signal |-> Str("foo")]],
     [event_data |-> [timestamp |-> <<"isostr", 1, 0>>, signal |-> Str("r_peak"),
                      meta |-> None]]}

FetchOutcomes == {"ok", "ConnectionError", "HTTPError"}

----------------------------------------------------------------------------
(* get_ecg_events: lines 184-238 *)

\* a fetch in which a non-2xx answer is not an error
FetchFailedOnTransportOnly(outcome) == outcome = "ConnectionError"

\* lines 184-188: requests.get raises, or raise_for_status raises
FetchFailed(outcome) == outcome # "ok"

\* line 190
BadGateway(outcome) ==
    [code |-> 502, detail |-> <<"Could not fetch data from event logger", outcome>>]

\* evt.get('event_data', {})
EventData(evt) == IF "event_data" \in DOMAIN evt THEN evt.event_data ELSE <<>>

\* pd.to_datetime(text) of line 196: the aware Timestamp of an ISO text
\* that carries an offset
ToDatetime(text) == <<"ts", text[2], text[3]>>

\* since <= t, for a datetime and a Timestamp
DatetimeLeq(d, t) == d[2] < t[2] \/ (d[2] = t[2] /\ 0 <= t[3])

\* t < until
DatetimeLess(t, d) == t[2] < d[2]

\* a window test that takes t = until in
WindowTestClosed(evt, lo, hi) ==
    IF "timestamp" \notin DOMAIN EventData(evt) THEN "out"
    ELSE LET t == ToDatetime(evt.event_data.timestamp)
         IN  IF ~lo[3] THEN "raise"
             ELSE IF ~DatetimeLeq(lo, t) THEN "out"
             ELSE IF ~hi[3] THEN "raise"
             ELSE IF DatetimeLess(t, hi) \/ t[2] = hi[2] THEN "in" ELSE "out"

\* lines 195-196: the condition of the comprehension; comparing a naive
\* datetime with an aware Timestamp raises TypeError, and the second
\* comparison of the chain is made only when the first is true
WindowTest(evt, lo, hi) ==
    IF "timestamp" \notin DOMAIN EventData(evt) THEN "out"
    ELSE LET t == ToDatetime(evt.event_data.timestamp)
         IN  IF ~lo[3] THEN "raise"
             ELSE IF ~DatetimeLeq(lo, t) THEN "out"
             ELSE IF ~hi[3] THEN "raise"
             ELSE IF DatetimeLess(t, hi) THEN "in" ELSE "out"

\* lines 193-197
FilterEvents(all_events, lo, hi) ==
    LET selected == RowsAt(all_events,
                           {i \in 1..Len(all_events) :
                               WindowTest(all_events[i], lo, hi) = "in"})
    IN  [raised |-> \E i \in 1..Len(all_events) :
                        WindowTest(all_events[i], lo, hi) = "raise",
         events |-> [i \in 1..Len(selected) |-> selected[i].event_data]]

\* event.get(key)
Get(event, key) == IF key \in DOMAIN event THEN event[key] ELSE None

\* a projection that never reads the event's meta
MetaOfNothing(event) == Dict({})

\* event.get('meta', {})
MetaOf(event) == IF "meta" \in DOMAIN event THEN event.meta ELSE Dict({})

\* the branches of lines 206, 215 and 223
SurfacedSignals == {Str("r_peak"), Str("st_elev"), Str("marked_event")}

\* meta.get(...) on a meta that is None raises AttributeError
ProjectionRaises(event) ==
    Get(event, "signal") \in SurfacedSignals /\ MetaOf(event)[1] # "dict"

\* line 212
hr_estimate_bpm == 72

\* lines 206-229: the entry appended for an event of a surfaced kind
Projection(event) ==
    LET meta == MetaOf(event)
    IN  CASE Get(event, "signal") = Str("r_peak") ->
                [timestamp |-> Get(event, "timestamp"),
                 type |-> Str("r_peak"),
                 hr_estimate_bpm |-> hr_estimate_bpm,
                 source |-> DictGet(meta, "source", None)]
          [] Get(event, "signal") = Str("st_elev") ->
                [timestamp |-> Get(event, "timestamp"),
                 type |-> Str("st_elev"),
                 magnitude_mv |-> Get(event, "value"),
                 lead |-> DictGet(meta, "lead", None),
                 source |-> DictGet(meta, "source", None)]
          [] Get(event, "signal") = Str("marked_event") ->
                [timestamp |-> Get(event, "timestamp"),
                 type |-> Str("marked_event"),
                 label |-> DictGet(meta, "label", None),
                 source |-> DictGet(meta, "source", None)]

\* a loop that puts each entry in front of the list
FormatEventsReversed(filtered) ==
    LET selected == RowsAt(filtered, {i \in 1..Len(filtered) :
                                         Get(filtered[i], "signal") \in SurfacedSignals})
    IN  [i \in 1..Len(selected) |-> Projection(selected[Len(selected) + 1 - i])]

\* lines 200-229: formatted_events
FormatEvents(filtered) ==
    LET selected == RowsAt(filtered, {i \in 1..Len(filtered) :
                                         Get(filtered[i], "signal") \in SurfacedSignals})
    IN  [i \in 1..Len(selected) |-> Projection(selected[i])]

\* a count of the events in the window
EventCountOfFiltered(formatted_events, filtered) == Len(filtered)

\* line 236
EventCount(formatted_events, filtered) == Len(formatted_events)

\* datetime.isoformat(): with the offset for an aware datetime, without for
\* a naive one
datetime_isoformat(d) ==
    IF d[3] THEN <<"isostr", d[2], 0>> ELSE <<"isostr-naive", d[2], 0>>

\* lines 233-238
QueryResponse(lo, hi, formatted_events, filtered) ==
    [code |-> 200,
     since |-> datetime_isoformat(lo),
     until |-> datetime_isoformat(hi),
     count |-> EventCount(formatted_events, filtered),
     events |-> formatted_events]

----------------------------------------------------------------------------
NoUpload ==
    /\ pc = "idle"
    /\ request = NoRequest
    /\ columns = {}
    /\ rows = <<>>
    /\ tz_override = NoTz
    /\ initial_rows = 0
    /\ records_to_ingest = <<>>
    /\ next_record = 1
    /\ ingested_count = 0
    /\ posts = <<>>
    /\ response = NoResponse

NoQuery ==
    /\ query_pc = "idle"
    /\ since = NoDatetime
    /\ until = NoDatetime
    /\ read_calls = 0
    /\ fetch_outcome = "none"
    /\ filtered_events_data = <<>>
    /\ query_response = NoResponse

\* the users that check in
Users == {"u1", "u2"}

\* memory.py line 3: no user has a check-in stored
NoCheckIn ==
    /\ user_memory = [u \in Users |-> <<>>]
    /\ checkins = <<>>
    /\ trend_info = "None"
    /\ checkin_response = NoResponse

NoFitbitRequest == [route |-> "none"]

\* an empty session and no Fitbit request yet
NoFitbitSession ==
    /\ session = Dict({})
    /\ now = 0
    /\ fitbit_pc = "idle"
    /\ fitbit_request = NoFitbitRequest
    /\ fitbit_calls = <<>>
    /\ adapter = None
    /\ attempt_number = 0
    /\ fitbit_response = NoResponse

NoFitbit == NoFitbitSession /\ FAKE_HRV_DATA = FALSE

\* the uploads that are served at the same time
Clients == {"a", "b"}

\* the locals of an upload that has not arrived
NoLocals ==
    [pc |-> "idle", request |-> NoRequest, tz_override |-> NoTz,
     initial_rows |-> 0, records_to_ingest |-> <<>>, next_record |-> 1,
     ingested_count |-> 0, response |-> NoResponse]

NoConcurrentUpload ==
    /\ uploads = [c \in Clients |-> NoLocals]
    /\ received = <<>>

Init ==
    /\ NoUpload /\ NoQuery /\ logger_events = <<>> /\ NoCheckIn /\ NoFitbit
    /\ NoConcurrentUpload

\* lines 35-74: the request is refused by the parsing step
UploadRejected ==
    /\ pc = "idle"
    /\ \E req \in Requests :
        /\ ParseRequest(req).raised
        /\ request' = req
        /\ response' = ParseError(ParseRequest(req).detail)
    /\ \E tz \in TzOverrides : tz_override' = tz
    /\ pc' = "done"
    /\ UNCHANGED <<columns, rows, initial_rows, records_to_ingest, next_record,
                   ingested_count, posts>>
    /\ UNCHANGED <<query_vars, checkin_vars, fitbit_vars, concurrent_vars>>

\* lines 76-108: the frame lacks the timestamp or the signal column
UploadKeyError ==
    /\ pc = "idle"
    /\ \E req \in Requests :
        /\ ~ParseRequest(req).raised
        /\ LET df == Standardized(req)
           IN  /\ ~(MandatoryColumns \subseteq df.columns)
               /\ request' = req
               /\ columns' = df.columns
               /\ rows' = df.rows
               /\ initial_rows' = Len(df.rows)
    /\ \E tz \in TzOverrides : tz_override' = tz
    /\ response' = InternalServerError
    /\ pc' = "done"
    /\ UNCHANGED <<records_to_ingest, next_record, ingested_count, posts>>
    /\ UNCHANGED <<query_vars, checkin_vars, fitbit_vars, concurrent_vars>>

\* lines 76-110: no row has both mandatory fields
UploadEmpty ==
    /\ pc = "idle"
    /\ \E req \in Requests :
        /\ ~ParseRequest(req).raised
        /\ LET df == Standardized(req)
           IN  /\ MandatoryColumns \subseteq df.columns
               /\ Cleaned(df.rows) = <<>>
               /\ request' = req
               /\ columns' = df.columns
               /\ rows' = df.rows
               /\ initial_rows' = Len(df.rows)
               /\ response' = EmptyResponse(Len(df.rows))
    /\ \E tz \in TzOverrides : tz_override' = tz
    /\ pc' = "done"
    /\ UNCHANGED <<records_to_ingest, next_record, ingested_count, posts>>
    /\ UNCHANGED <<query_vars, checkin_vars, fitbit_vars, concurrent_vars>>

\* lines 76-133: the timezone override raises
UploadTimezoneError ==
    /\ pc = "idle"
    /\ \E req \in Requests :
        /\ ~ParseRequest(req).raised
        /\ LET df == Standardized(req)
           IN  /\ MandatoryColumns \subseteq df.columns
               /\ Cleaned(df.rows) # <<>>
               /\ request' = req
               /\ columns' = df.columns
               /\ rows' = df.rows
               /\ initial_rows' = Len(df.rows)
               /\ \E tz \in TzOverrides :
                   /\ Zoned(df.rows, tz).raised
                   /\ tz_override' = tz
    /\ response' = TimezoneError
    /\ pc' = "done"
    /\ UNCHANGED <<records_to_ingest, next_record, ingested_count, posts>>
    /\ UNCHANGED <<query_vars, checkin_vars, fitbit_vars, concurrent_vars>>

\* lines 76-146: the batch is cleaned, sorted and de-duplicated
UploadSanitized ==
    /\ pc = "idle"
    /\ \E req \in Requests :
        /\ ~ParseRequest(req).raised
        /\ LET df == Standardized(req)
           IN  /\ MandatoryColumns \subseteq df.columns
               /\ Cleaned(df.rows) # <<>>
               /\ request' = req
               /\ columns' = df.columns
               /\ rows' = df.rows
               /\ initial_rows' = Len(df.rows)
               /\ \E tz \in TzOverrides :
                   /\ ~Zoned(df.rows, tz).raised
                   /\ tz_override' = tz
                   /\ \E recs \in Sanitized(df.rows, tz) : records_to_ingest' = recs
    /\ ingested_count' = 0
    /\ next_record' = 1
    /\ pc' = "forwarding"
    /\ UNCHANGED <<posts, response>>
    /\ UNCHANGED <<query_vars, checkin_vars, fitbit_vars, concurrent_vars>>

\* lines 147-163: one iteration of the forwarding loop
PostRecord ==
    /\ pc = "forwarding"
    /\ next_record <= Len(records_to_ingest)
    /\ \E outcome \in Outcomes :
        /\ posts' = Append(posts, [payload |-> Payload(records_to_ingest[next_record]),
                                   outcome |-> outcome])
        /\ ingested_count' = IngestedAfter(ingested_count, outcome)
        /\ next_record' = NextAfter(next_record, outcome, Len(records_to_ingest))
    /\ UNCHANGED <<pc, request, columns, rows, tz_override, initial_rows,
                   records_to_ingest, response>>
    /\ UNCHANGED <<query_vars, checkin_vars, fitbit_vars, concurrent_vars>>

\* lines 165-173
Respond ==
    /\ pc = "forwarding"
    /\ next_record > Len(records_to_ingest)
    /\ response' = SuccessResponse(ingested_count,
                                   dropped_count(initial_rows, Len(records_to_ingest)))
    /\ pc' = "done"
    /\ UNCHANGED <<request, columns, rows, tz_override, initial_rows,
                   records_to_ingest, next_record, ingested_count, posts>>
    /\ UNCHANGED <<query_vars, checkin_vars, fitbit_vars, concurrent_vars>>

Next ==
    \/ UploadRejected
    \/ UploadKeyError
    \/ UploadEmpty
    \/ UploadTimezoneError
    \/ UploadSanitized
    \/ PostRecord
    \/ Respond

Spec == Init /\ [][Next]_vars

----------------------------------------------------------------------------
(* Uploads served at the same time.  Every name upload_ecg_data assigns    *)
(* (df, initial_rows, records_to_ingest, ingested_count, dropped_count) is *)
(* a local of the call, so each request has locals of its own; the only    *)
(* thing the requests share is the event logger their calls go to.  The    *)
(* requests are interleaved at every forwarding call, which covers a       *)
(* server with several workers as well as one event loop.                  *)

\* one request of each way a request can end: two records forwarded, three
\* rows of which one is incomplete and one a duplicate, no row with both
\* mandatory fields, no timestamp column, a body that does not parse
ConcurrentRequests ==
    {BodyRequest("application/json", JsonArray(CanonicalJsonRecords)),
     BodyRequest("application/json",
                 JsonArray(<<[timestamp |-> <<"iso", 0>>, signal |-> Str("ecg")],
                             [signal |-> Str("ecg")],
                             [timestamp |-> <<"iso", 0>>, signal |-> Str("ecg")]>>)),
     BodyRequest("application/json",
                 JsonArray(<<[signal |-> Str("ecg")], [timestamp |-> <<"iso", 0>>]>>)),
     BodyRequest("application/json", JsonArray(<<[signal |-> Str("ecg")]>>)),
     BodyRequest("application/json", Malformed)}

\* a counter kept at module level, which every request being served
\* increments and reads
shared_ingested_count(ups, c) ==
    CHOOSE n \in {ups[d].ingested_count : d \in Clients} :
        \A d \in Clients : ups[d].ingested_count <= n

\* line 141: ingested_count is a local of the call
local_ingested_count(ups, c) == ups[c].ingested_count

\* the locals of request c after a step that assigns some of them
Assign(c, locals) == [uploads EXCEPT ![c] = locals]

\* lines 35-74: the request is refused by the parsing step
ConcurrentUploadRejected(c) ==
    /\ uploads[c].pc = "idle"
    /\ \E req \in ConcurrentRequests, tz \in TzOverrides :
        /\ ParseRequest(req).raised
        /\ uploads' = Assign(c, [uploads[c] EXCEPT
                                   !.request = req,
                                   !.tz_override = tz,
                                   !.response = ParseError(ParseRequest(req).detail),
                                   !.pc = "done"])
    /\ UNCHANGED received
    /\ UNCHANGED <<upload_vars, query_vars, checkin_vars, fitbit_vars>>

\* lines 76-108: the frame lacks the timestamp or the signal column
ConcurrentUploadKeyError(c) ==
    /\ uploads[c].pc = "idle"
    /\ \E req \in ConcurrentRequests, tz \in TzOverrides :
        /\ ~ParseRequest(req).raised
        /\ ~(MandatoryColumns \subseteq Standardized(req).columns)
        /\ uploads' = Assign(c, [uploads[c] EXCEPT
                                   !.request = req,
                                   !.tz_override = tz,
                                   !.initial_rows = Len(Standardized(req).rows),
                                   !.response = InternalServerError,
                                   !.pc = "done"])
    /\ UNCHANGED received
    /\ UNCHANGED <<upload_vars, query_vars, checkin_vars, fitbit_vars>>

\* lines 76-110: no row has both mandatory fields
ConcurrentUploadEmpty(c) ==
    /\ uploads[c].pc = "idle"
    /\ \E req \in ConcurrentRequests, tz \in TzOverrides :
        /\ ~ParseRequest(req).raised
        /\ LET df == Standardized(req)
           IN  /\ MandatoryColumns \subseteq df.columns
               /\ Cleaned(df.rows) = <<>>
               /\ uploads' = Assign(c, [uploads[c] EXCEPT
                                          !.request = req,
                                          !.tz_override = tz,
                                          !.initial_rows = Len(df.rows),
                                          !.response = EmptyResponse(Len(df.rows)),
                                          !.pc = "done"])
    /\ UNCHANGED received
    /\ UNCHANGED <<upload_vars, query_vars, checkin_vars, fitbit_vars>>

\* lines 76-133: the timezone override raises
ConcurrentUploadTimezoneError(c) ==
    /\ uploads[c].pc = "idle"
    /\ \E req \in ConcurrentRequests, tz \in TzOverrides :
        /\ ~ParseRequest(req).raised
        /\ LET df == Standardized(req)
           IN  /\ MandatoryColumns \subseteq df.columns
               /\ Cleaned(df.rows) # <<>>
               /\ Zoned(df.rows, tz).raised
               /\ uploads' = Assign(c, [uploads[c] EXCEPT
                                          !.request = req,
                                          !.tz_override = tz,
                                          !.initial_rows = Len(df.rows),
                                          !.response = TimezoneError,
                                          !.pc = "done"])
    /\ UNCHANGED received
    /\ UNCHANGED <<upload_vars, query_vars, checkin_vars, fitbit_vars>>

\* lines 76-146: the batch is cleaned, sorted and de-duplicated
ConcurrentUploadSanitized(c) ==
    /\ uploads[c].pc = "idle"
    /\ \E req \in ConcurrentRequests, tz \in TzOverrides :
        /\ ~ParseRequest(req).raised
        /\ LET df == Standardized(req)
           IN  /\ MandatoryColumns \subseteq df.columns
               /\ Cleaned(df.rows) # <<>>
               /\ ~Zoned(df.rows, tz).raised
               /\ \E recs \in Sanitized(df.rows, tz) :
                    uploads' = Assign(c, [uploads[c] EXCEPT
                                            !.request = req,
                                            !.tz_override = tz,
                                            !.initial_rows = Len(df.rows),
                                            !.records_to_ingest = recs,
                                            !.ingested_count = 0,
                                            !.next_record = 1,
                                            !.pc = "forwarding"])
    /\ UNCHANGED received
    /\ UNCHANGED <<upload_vars, query_vars, checkin_vars, fitbit_vars>>

\* lines 147-163: one iteration of the forwarding loop of request c
ConcurrentPostRecord(c) ==
    /\ uploads[c].pc = "forwarding"
    /\ uploads[c].next_record <= Len(uploads[c].records_to_ingest)
    /\ \E outcome \in Outcomes :
        /\ received' =
               Append(received,
                      [client |-> c,
                       payload |-> Payload(uploads[c].records_to_ingest[uploads[c].next_record]),
                       outcome |-> outcome])
        /\ uploads' = Assign(c, [uploads[c] EXCEPT
               !.ingested_count = IngestedAfter(local_ingested_count(uploads, c), outcome),
               !.next_record = NextAfter(@, outcome, Len(uploads[c].records_to_ingest))])
    /\ UNCHANGED <<upload_vars, query_vars, checkin_vars, fitbit_vars>>

\* lines 165-173
ConcurrentRespond(c) ==
    /\ uploads[c].pc = "forwarding"
    /\ uploads[c].next_record > Len(uploads[c].records_to_ingest)
    /\ uploads' = Assign(c, [uploads[c] EXCEPT
           !.response = SuccessResponse(local_ingested_count(uploads, c),
                                        dropped_count(uploads[c].initial_rows,
                                                      Len(uploads[c].records_to_ingest))),
           !.pc = "done"])
    /\ UNCHANGED received
    /\ UNCHANGED <<upload_vars, query_vars, checkin_vars, fitbit_vars>>

ConcurrentNext ==
    \/ \E c \in Clients : ConcurrentUploadRejected(c)
    \/ \E c \in Clients : ConcurrentUploadKeyError(c)
    \/ \E c \in Clients : ConcurrentUploadEmpty(c)
    \/ \E c \in Clients : ConcurrentUploadTimezoneError(c)
    \/ \E c \in Clients : ConcurrentUploadSanitized(c)
    \/ \E c \in Clients : ConcurrentPostRecord(c)
    \/ \E c \in Clients : ConcurrentRespond(c)

ConcurrentSpec == Init /\ [][ConcurrentNext]_vars

----------------------------------------------------------------------------
(* Behaviours of get_ecg_events *)

QueryInit ==
    /\ NoUpload
    /\ NoQuery
    /\ NoCheckIn
    /\ NoFitbit
    /\ NoConcurrentUpload
    /\ \E n \in 0..MaxEvents : logger_events \in [1..n -> RawEvents]

\* a handler that asks the event logger twice
requests_get_twice(calls) == calls + 2

\* line 185: the one call the handler makes to the event logger, a GET of
\* /api/events
requests_get(calls) == calls + 1

\* lines 184-190: the fetch fails
QueryFetchFailed ==
    /\ query_pc = "idle"
    /\ \E lo \in Datetimes, hi \in Datetimes :
        /\ since' = lo
        /\ until' = hi
    /\ \E outcome \in FetchOutcomes :
        /\ FetchFailed(outcome)
        /\ fetch_outcome' = outcome
        /\ query_response' = BadGateway(outcome)
    /\ read_calls' = requests_get(read_calls)
    /\ query_pc' = "done"
    /\ UNCHANGED <<logger_events, filtered_events_data>>
    /\ UNCHANGED <<upload_vars, checkin_vars, fitbit_vars, concurrent_vars>>

\* lines 184-197: a comparison of the window filter raises TypeError
QueryCompareError ==
    /\ query_pc = "idle"
    /\ \E lo \in Datetimes, hi \in Datetimes :
        /\ FilterEvents(logger_events, lo, hi).raised
        /\ since' = lo
        /\ until' = hi
    /\ \E outcome \in FetchOutcomes :
        /\ ~FetchFailed(outcome)
        /\ fetch_outcome' = outcome
    /\ read_calls' = requests_get(read_calls)
    /\ query_response' = InternalServerError
    /\ query_pc' = "done"
    /\ UNCHANGED <<logger_events, filtered_events_data>>
    /\ UNCHANGED <<upload_vars, checkin_vars, fitbit_vars, concurrent_vars>>

\* lines 184-229: an event of a surfaced kind in the window has a null meta
QueryProjectionError ==
    /\ query_pc = "idle"
    /\ \E lo \in Datetimes, hi \in Datetimes :
        LET filtered == FilterEvents(logger_events, lo, hi)
        IN  /\ ~filtered.raised
            /\ \E i \in 1..Len(filtered.events) : ProjectionRaises(filtered.events[i])
            /\ since' = lo
            /\ until' = hi
            /\ filtered_events_data' = filtered.events
    /\ \E outcome \in FetchOutcomes :
        /\ ~FetchFailed(outcome)
        /\ fetch_outcome' = outcome
    /\ read_calls' = requests_get(read_calls)
    /\ query_response' = InternalServerError
    /\ query_pc' = "done"
    /\ UNCHANGED logger_events
    /\ UNCHANGED <<upload_vars, checkin_vars, fitbit_vars, concurrent_vars>>

\* lines 184-238: the query is answered
QueryAnswered ==
    /\ query_pc = "idle"
    /\ \E lo \in Datetimes, hi \in Datetimes :
        LET filtered == FilterEvents(logger_events, lo, hi)
        IN  /\ ~filtered.raised
            /\ \A i \in 1..Len(filtered.events) : ~ProjectionRaises(filtered.events[i])
            /\ since' = lo
            /\ until' = hi
            /\ filtered_events_data' = filtered.events
            /\ query_response' =
                   QueryResponse(lo, hi, FormatEvents(filtered.events), filtered.events)
    /\ \E outcome \in FetchOutcomes :
        /\ ~FetchFailed(outcome)
        /\ fetch_outcome' = outcome
    /\ read_calls' = requests_get(read_calls)
    /\ query_pc' = "done"
    /\ UNCHANGED logger_events
    /\ UNCHANGED <<upload_vars, checkin_vars, fitbit_vars, concurrent_vars>>

QueryNext ==
    \/ QueryFetchFailed
    \/ QueryCompareError
    \/ QueryProjectionError
    \/ QueryAnswered

QuerySpec == QueryInit /\ [][QueryNext]_vars

----------------------------------------------------------------------------
(* Behaviours of breath_check_in (main.py) over utils/memory.py *)

MaxCheckIns == 4

BreathRates == {14, 15, 16}

\* the request bodies: models.py lines 5-9
BreathCheckIns ==
    [user_id : Users, text : {"hello"}, breath_rate : BreathRates, hrv : {55}]

\* memory.py line 3: deque(maxlen=3)
maxlen == 3

\* a deque that never evicts
deque_append_unbounded(dq, x) == Append(dq, x)

\* deque.append with a maximum length: at full length the leftmost entry
\* is discarded
deque_append(dq, x) ==
    IF Len(dq) = maxlen THEN Append(Tail(dq), x) ELSE Append(dq, x)

\* a handler that stores the check-in only after the trend is computed
store_checkin_later(memory, user_id, data) == memory

\* memory.py lines 5-6
store_checkin(memory, user_id, data) ==
    [memory EXCEPT ![user_id] = deque_append(@, data)]

\* memory.py lines 8-9
get_user_history(memory, user_id) == memory[user_id]

Abs(n) == IF n < 0 THEN 0 - n ELSE n

\* scoring.py lines 1-6, in hundredths of a point: breath_score is
\* max(0, 10 - |breath_rate - 16|) tenths and hrv_score min(hrv, 100)
\* hundredths
calculate_coherence(breath_rate, hrv) ==
    LET breath_score == IF 10 - Abs(breath_rate - 16) < 0 THEN 0
                        ELSE 10 - Abs(breath_rate - 16)
        hrv_score == IF hrv < 100 THEN hrv ELSE 100
    IN  500 * breath_score + 50 * hrv_score

\* main.py line 51
TrendNote == "User's breath rate has been rising over the last 3 check-ins."

\* main.py lines 48-53
TrendOf(history) ==
    IF Len(history) >= 3
    THEN LET trend_values == [i \in 1..Len(history) |-> history[i].breath_rate]
             is_rising == \A i \in 1..(Len(trend_values) - 1) :
                              trend_values[i] < trend_values[i + 1]
         IN  IF is_rising THEN TrendNote ELSE "None"
    ELSE "None"

\* main.py line 63, with the message the generator returned for
\* (text, score, trend)
BreathResponse(data, score, trend) ==
    [code |-> 200, coherence_score |-> score,
     message |-> <<"generated", data.text, score, trend>>]

CheckInInit ==
    /\ NoUpload /\ NoQuery /\ logger_events = <<>> /\ NoCheckIn /\ NoFitbit
    /\ NoConcurrentUpload

\* main.py lines 38-63: the check-in is stored, scored and answered
BreathCheckInAnswered ==
    /\ Len(checkins) < MaxCheckIns
    /\ \E data \in BreathCheckIns :
        LET memory == store_checkin(user_memory, data.user_id, data)
            score == calculate_coherence(data.breath_rate, data.hrv)
            history == get_user_history(memory, data.user_id)
        IN  /\ checkins' = Append(checkins, data)
            /\ user_memory' = memory
            /\ trend_info' = TrendOf(history)
            /\ checkin_response' = BreathResponse(data, score, TrendOf(history))
    /\ UNCHANGED <<upload_vars, query_vars, fitbit_vars, concurrent_vars>>

\* main.py lines 38-61: generate_response raises (the language model cannot
\* be reached) after the check-in was stored
BreathCheckInGenerateFailed ==
    /\ Len(checkins) < MaxCheckIns
    /\ \E data \in BreathCheckIns :
        LET memory == store_checkin(user_memory, data.user_id, data)
            history == get_user_history(memory, data.user_id)
        IN  /\ checkins' = Append(checkins, data)
            /\ user_memory' = memory
            /\ trend_info' = TrendOf(history)
            /\ checkin_response' = InternalServerError
    /\ UNCHANGED <<upload_vars, query_vars, fitbit_vars, concurrent_vars>>

CheckInNext ==
    \/ BreathCheckInAnswered
    \/ BreathCheckInGenerateFailed

CheckInSpec == CheckInInit /\ [][CheckInNext]_vars

----------------------------------------------------------------------------
(* Behaviours of the Fitbit routes (routes/fitbit_routes.py) over the      *)
(* adapter (adapters/fitbit_adapter.py).  The session and a token payload  *)
(* are mappings (Dict), a token is a string (Str), a number is <<"num", n>>.*)
(* settings.FRONTEND_URL and settings.FAKE_HRV_DATA are read from the      *)
(* process configuration: the frontend address is kept as a name, the flag *)
(* is fixed by the initial state.                                          *)

MaxTime == 2

MaxEntries == 2

Num(n) == <<"num", n>>

\* key in d
HasKey(d, key) == \E kv \in d[2] : kv[1] = key

\* d[key] = value
SetItem(d, key, value) == Dict({kv \in d[2] : kv[1] # key} \cup {<<key, value>>})

\* d.pop(key, None)
Pop(d, key) == Dict({kv \in d[2] : kv[1] # key})

\* request.session.get(key, default)
SessionGet(sess, key, default) == DictGet(sess, key, default)

\* secrets.token_urlsafe(16) of line 100
OAuthStates == {Str("s1"), Str("s2")}

\* secrets.token_urlsafe(32) of line 85
Verifiers == {Str("v1")}

\* the code and state query parameters of a callback, None when absent
Codes == {None, Str("c1")}

StateParams == {None} \cup OAuthStates

FitbitRequests ==
    {[route |-> "login"], [route |-> "get-live-hrv"]}
      \cup {[route |-> "callback", code |-> c, state |-> st] :
                c \in Codes, st \in StateParams}

TokenDict(access_token, refresh_token, expires_in) ==
    Dict({<<"access_token", Str(access_token)>>,
          <<"refresh_token", Str(refresh_token)>>,
          <<"expires_in", Num(expires_in)>>})

\* the token payloads Fitbit answers with: complete ones, ones that lack a
\* key, and an empty one
TokenData ==
    {TokenDict("a1", "r1", 300),
     TokenDict("a2", "r2", 301),
     Pop(TokenDict("a2", "r2", 301), "access_token"),
     Pop(TokenDict("a2", "r2", 301), "refresh_token"),
     Pop(TokenDict("a2", "r2", 301), "expires_in"),
     Dict({})}

\* the ways a call to Fitbit raises a RequestException: an answer with an
\* error status and a JSON body that says so, or no answer at all
FailureOutcomes ==
    {[status |-> "HTTPError", body |-> Dict({<<"success", Str("false")>>})],
     [status |-> "ConnectionError", body |-> None]}

\* how a call to the token endpoint ends
TokenOutcomes ==
    {[status |-> "ok", body |-> d] : d \in TokenData}
      \cup FailureOutcomes

\* an HRV entry of the payload: complete ones, one without a timestamp and
\* with a null deep value, one with a null deep value, one whose timestamp
\* is no date, one whose value is null, and one that is no mapping
HrvEntries ==
    {Dict({<<"value", Dict({<<"deep", Num(80)>>})>>, <<"timestamp", <<"iso", 1>>>>}),
     Dict({<<"value", Dict({<<"deep", Num(82)>>})>>, <<"timestamp", <<"iso", 2>>>>}),
     Dict({<<"value", Dict({<<"deep", None>>})>>}),
     Dict({<<"value", Dict({<<"deep", None>>})>>, <<"timestamp", <<"iso", 1>>>>}),
     Dict({<<"value", Dict({<<"deep", Num(80)>>})>>, <<"timestamp", Garbage>>}),
     Dict({<<"value", None>>, <<"timestamp", <<"iso", 1>>>>}),
     Str("entry")}

\* the JSON bodies of the HRV endpoint
HrvPayloads ==
    {Dict({})} \cup
    {Dict({<<"hrv", entries>>}) :
        entries \in UNION {[1..n -> HrvEntries] : n \in 0..MaxEntries}}

\* how a call of fetch_data ends: an answer that is an HTTP error, no answer
\* at all (both a RequestException), or a 2xx answer with its body
HrvOutcomes ==
    {[status |-> "ok", body |-> p] : p \in HrvPayloads}
      \cup FailureOutcomes

\* how the call of connect ends
ProfileOutcomes == {[status |-> "ok", body |-> None]} \cup FailureOutcomes

\* a call made to Fitbit: the token endpoint with a grant, or a data
\* endpoint with the bearer token
Call(api, grant, credential, verifier, outcome, t) ==
    [api |-> api, grant |-> grant, credential |-> credential,
     verifier |-> verifier, status |-> outcome.status, body |-> outcome.body,
     at |-> t]

\* RedirectResponse(url=f"{settings.FRONTEND_URL}?fitbit_status=...")
Redirect(fitbit_status) ==
    [code |-> 307, location |-> <<"FRONTEND_URL", "fitbit_status", fitbit_status>>]

HTTPException(status_code, detail) == [code |-> status_code, detail |-> <<detail>>]

\* a helper that leaves the expiry as it was
update_session_keeping_expiry(sess, token_data, t) ==
    [raised |-> FALSE,
     session |-> SetItem(SetItem(sess, "fitbit_access_token",
                                 DictGet(token_data, "access_token", None)),
                         "fitbit_refresh_token",
                         DictGet(token_data, "refresh_token", None))]

\* lines 15-19: three assignments in order, each reading a key of
\* token_data; a missing key raises KeyError after the earlier assignments
\* were made
update_session_with_tokens(sess, token_data, t) ==
    LET s1 == SetItem(sess, "fitbit_access_token",
                      DictGet(token_data, "access_token", None))
        s2 == SetItem(s1, "fitbit_refresh_token",
                      DictGet(token_data, "refresh_token", None))
        s3 == SetItem(s2, "fitbit_token_expires_at",
                      Num(t + DictGet(token_data, "expires_in", Num(0))[2]))
    IN  IF ~HasKey(token_data, "access_token") THEN [raised |-> TRUE, session |-> sess]
        ELSE IF ~HasKey(token_data, "refresh_token")
             THEN [raised |-> TRUE, session |-> s1]
        ELSE IF ~HasKey(token_data, "expires_in")
             THEN [raised |-> TRUE, session |-> s2]
        ELSE [raised |-> FALSE, session |-> s3]

\* a helper that returns the body of any answer
refresh_fitbit_token_unchecked(outcome) == outcome.body

\* lines 31-41: the token payload, or None when the call raised
refresh_fitbit_token(outcome) == IF outcome.status = "ok" THEN outcome.body ELSE None

\* a dependency that does not look at the tokens of the session
NotAuthenticatedNever(access_token, refresh_token) == FALSE

\* line 62: not all([access_token, refresh_token])
NotAuthenticated(access_token, refresh_token) ==
    access_token = None \/ refresh_token = None

\* a test that waits for the expiry itself
NeedsRefreshWhenExpired(t, expires_at) == t > expires_at[2]

\* line 67
NeedsRefresh(t, expires_at) == t > expires_at[2] - 300

\* a check that accepts any state that is present
StateRejectedWhenMissing(state, stored_state) == state = None

\* line 138: not state or state != stored_state
StateRejected(state, stored_state) == state = None \/ state # stored_state

\* a check of the access token alone
IncompleteWithoutAccessToken(token_data) == ~HasKey(token_data, "access_token")

\* an exchange in which an error status is not an error
RaisesOnNoAnswer(outcome) == outcome.status = "ConnectionError"

\* lines 157-158: requests.post raises, or raise_for_status raises
RaisesRequestException(outcome) == outcome.status # "ok"

\* line 161
IncompleteTokenData(token_data) ==
    ~HasKey(token_data, "access_token") \/ ~HasKey(token_data, "refresh_token")

\* adapter lines 65-70: stop_after_attempt(3)
stop_after_attempt == 3

\* a retry policy that gives up after the first attempt
StopNow(n) == TRUE

\* tenacity: no further attempt once the attempt number reaches the stop
Stop(n) == n >= stop_after_attempt

\* adapter line 107
WellFormed(entry) ==
    entry[1] = "dict" /\ HasKey(entry, "value") /\ HasKey(entry, "timestamp")

\* adapter line 108: .get on a value that is no mapping raises
\* AttributeError, outside the try of line 110
DeepRaises(entry) == WellFormed(entry) /\ DictGet(entry, "value", None)[1] # "dict"

\* adapter lines 21-23 and 111-114: the timestamp must be a date text and
\* the value a number
HRVEntryValidates(timestamp, hrv_value) == timestamp[1] = "iso" /\ hrv_value[1] = "num"

\* adapter line 115: model_dump() of the validated entry, the timestamp as
\* a datetime and the value as a float
model_dump(timestamp, hrv_value) ==
    [timestamp |-> <<"datetime", timestamp[2], TRUE>>,
     hrv_value |-> <<"float", hrv_value[2]>>]

\* adapter lines 107-115: the entry is appended
Appended(entry) ==
    /\ WellFormed(entry)
    /\ ~DeepRaises(entry)
    /\ DictGet(DictGet(entry, "value", None), "deep", None) # None
    /\ HRVEntryValidates(DictGet(entry, "timestamp", None),
                         DictGet(DictGet(entry, "value", None), "deep", None))

\* adapter lines 96-124
normalize_data(raw_data) ==
    LET hrv_entries == DictGet(raw_data, "hrv", <<>>)
        kept == RowsAt(hrv_entries,
                       {i \in 1..Len(hrv_entries) : Appended(hrv_entries[i])})
    IN  [raised |-> \E i \in 1..Len(hrv_entries) : DeepRaises(hrv_entries[i]),
         data |-> [i \in 1..Len(kept) |->
                      model_dump(DictGet(kept[i], "timestamp", None),
                                 DictGet(DictGet(kept[i], "value", None),
                                         "deep", None))]]

\* line 195
HrvResponse(hrv_data) == [code |-> 200, status |-> "success", data |-> hrv_data]

\* line 198
UnexpectedError ==
    HTTPException(500, "An unexpected error occurred while fetching data.")

FitbitInit ==
    /\ NoUpload /\ NoQuery /\ logger_events = <<>> /\ NoCheckIn
    /\ NoConcurrentUpload
    /\ NoFitbitSession
    /\ FAKE_HRV_DATA \in BOOLEAN

\* time passes between two requests (a request reads the clock at lines 67
\* and 19 only, and what it does later does not depend on the time)
Tick ==
    /\ fitbit_pc = "idle"
    /\ now < MaxTime
    /\ now' = now + 1
    /\ UNCHANGED <<session, FAKE_HRV_DATA, fitbit_pc, fitbit_request, fitbit_calls,
                   adapter, attempt_number, fitbit_response>>
    /\ UNCHANGED <<upload_vars, query_vars, checkin_vars, concurrent_vars>>

\* a request reaches one of the routes
Receive ==
    /\ fitbit_pc = "idle"
    /\ \E req \in FitbitRequests :
        /\ fitbit_request' = req
        /\ fitbit_pc' = req.route
    /\ fitbit_calls' = <<>>
    /\ adapter' = None
    /\ attempt_number' = 0
    /\ fitbit_response' = NoResponse
    /\ UNCHANGED <<session, now, FAKE_HRV_DATA>>
    /\ UNCHANGED <<upload_vars, query_vars, checkin_vars, concurrent_vars>>

\* lines 91-122
LoginToFitbit ==
    /\ fitbit_pc = "login"
    /\ \E state \in OAuthStates, verifier \in Verifiers :
        /\ session' = SetItem(SetItem(Pop(Pop(session, "fitbit_pkce_verifier"),
                                          "fitbit_oauth_state"),
                                      "fitbit_pkce_verifier", verifier),
                              "fitbit_oauth_state", state)
        /\ fitbit_response' =
               [code |-> 302, location |-> <<"authorize", state, <<"S256", verifier>>>>]
    /\ fitbit_pc' = "idle"
    /\ UNCHANGED <<now, FAKE_HRV_DATA, fitbit_request, fitbit_calls, adapter,
                   attempt_number>>
    /\ UNCHANGED <<upload_vars, query_vars, checkin_vars, concurrent_vars>>

\* lines 131-139: the state check fails
CallbackStateError ==
    /\ fitbit_pc = "callback"
    /\ StateRejected(fitbit_request.state, SessionGet(session, "fitbit_oauth_state", None))
    /\ fitbit_response' = Redirect("error_state")
    /\ fitbit_pc' = "idle"
    /\ UNCHANGED <<session, now, FAKE_HRV_DATA, fitbit_request, fitbit_calls, adapter,
                   attempt_number>>
    /\ UNCHANGED <<upload_vars, query_vars, checkin_vars, concurrent_vars>>

\* lines 131-141: the state matches and there is no code
CallbackNoCode ==
    /\ fitbit_pc = "callback"
    /\ ~StateRejected(fitbit_request.state, SessionGet(session, "fitbit_oauth_state", None))
    /\ fitbit_request.code = None
    /\ fitbit_response' = [code |-> 200, error |-> <<"Authorization code not found.">>]
    /\ fitbit_pc' = "idle"
    /\ UNCHANGED <<session, now, FAKE_HRV_DATA, fitbit_request, fitbit_calls, adapter,
                   attempt_number>>
    /\ UNCHANGED <<upload_vars, query_vars, checkin_vars, concurrent_vars>>

\* what lines 131-157 have in common: the checks pass and the exchange call
\* is made, ending as outcome
Exchange(outcome) ==
    /\ ~StateRejected(fitbit_request.state, SessionGet(session, "fitbit_oauth_state", None))
    /\ fitbit_request.code # None
    /\ fitbit_calls' =
           <<Call("oauth2/token", "authorization_code", fitbit_request.code,
                  SessionGet(session, "fitbit_pkce_verifier", None), outcome, now)>>
    /\ fitbit_pc' = "idle"
    /\ UNCHANGED <<now, FAKE_HRV_DATA, fitbit_request, adapter, attempt_number>>
    /\ UNCHANGED <<upload_vars, query_vars, checkin_vars, concurrent_vars>>

\* lines 155-158 and 168-174: the exchange call raises a RequestException
CallbackExchangeFailed ==
    /\ fitbit_pc = "callback"
    /\ \E outcome \in TokenOutcomes :
        /\ RaisesRequestException(outcome)
        /\ Exchange(outcome)
        /\ fitbit_response' = Redirect("error_token")
        /\ UNCHANGED session

\* lines 155-163: the HTTPException is no RequestException and leaves the
\* handler
CallbackIncompleteTokenData ==
    /\ fitbit_pc = "callback"
    /\ \E outcome \in TokenOutcomes :
        /\ ~RaisesRequestException(outcome)
        /\ IncompleteTokenData(outcome.body)
        /\ Exchange(outcome)
        /\ fitbit_response' =
               HTTPException(500, "Incomplete token data received from Fitbit.")
        /\ UNCHANGED session

\* lines 155-165 and 15-19: the payload has both tokens and no expires_in,
\* so line 19 raises KeyError after lines 17 and 18
CallbackKeyError ==
    /\ fitbit_pc = "callback"
    /\ \E outcome \in TokenOutcomes :
        /\ ~RaisesRequestException(outcome)
        /\ ~IncompleteTokenData(outcome.body)
        /\ update_session_with_tokens(session, outcome.body, now).raised
        /\ Exchange(outcome)
        /\ session' = update_session_with_tokens(session, outcome.body, now).session
        /\ fitbit_response' = InternalServerError

\* lines 155-167
CallbackSucceeded ==
    /\ fitbit_pc = "callback"
    /\ \E outcome \in TokenOutcomes :
        /\ ~RaisesRequestException(outcome)
        /\ ~IncompleteTokenData(outcome.body)
        /\ ~update_session_with_tokens(session, outcome.body, now).raised
        /\ Exchange(outcome)
        /\ session' = update_session_with_tokens(session, outcome.body, now).session
        /\ fitbit_response' = Redirect("success")

\* lines 53-64: a token is missing from the session
HrvNotAuthenticated ==
    /\ fitbit_pc = "get-live-hrv"
    /\ NotAuthenticated(SessionGet(session, "fitbit_access_token", None),
                        SessionGet(session, "fitbit_refresh_token", None))
    /\ fitbit_response' = HTTPException(401, "User not authenticated with Fitbit.")
    /\ fitbit_pc' = "idle"
    /\ UNCHANGED <<session, now, FAKE_HRV_DATA, fitbit_request, fitbit_calls, adapter,
                   attempt_number>>
    /\ UNCHANGED <<upload_vars, query_vars, checkin_vars, concurrent_vars>>

\* lines 53-67 and 78-82: the token is not about to expire
HrvTokenValid ==
    /\ fitbit_pc = "get-live-hrv"
    /\ ~NotAuthenticated(SessionGet(session, "fitbit_access_token", None),
                         SessionGet(session, "fitbit_refresh_token", None))
    /\ ~NeedsRefresh(now, SessionGet(session, "fitbit_token_expires_at", Num(0)))
    /\ adapter' = SessionGet(session, "fitbit_access_token", None)
    /\ fitbit_pc' = "route"
    /\ UNCHANGED <<session, now, FAKE_HRV_DATA, fitbit_request, fitbit_calls,
                   attempt_number, fitbit_response>>
    /\ UNCHANGED <<upload_vars, query_vars, checkin_vars, concurrent_vars>>

\* what lines 53-69 have in common: the refresh call is made, ending as
\* outcome
Refresh(outcome) ==
    /\ ~NotAuthenticated(SessionGet(session, "fitbit_access_token", None),
                         SessionGet(session, "fitbit_refresh_token", None))
    /\ NeedsRefresh(now, SessionGet(session, "fitbit_token_expires_at", Num(0)))
    /\ fitbit_calls' =
           <<Call("oauth2/token", "refresh_token",
                  SessionGet(session, "fitbit_refresh_token", None), None, outcome, now)>>
    /\ UNCHANGED <<now, FAKE_HRV_DATA, fitbit_request, attempt_number>>
    /\ UNCHANGED <<upload_vars, query_vars, checkin_vars, concurrent_vars>>

\* lines 66-72: the refresh call raised, or returned an empty payload
HrvRefreshFailed ==
    /\ fitbit_pc = "get-live-hrv"
    /\ \E outcome \in TokenOutcomes :
        /\ ~Truthy(refresh_fitbit_token(outcome))
        /\ Refresh(outcome)
        /\ fitbit_response' =
               HTTPException(401, "Could not refresh Fitbit token. Please re-authenticate to reconnect your account.")
        /\ fitbit_pc' = "idle"
        /\ UNCHANGED <<session, adapter>>

\* lines 66-75 and 15-19: the new payload lacks a key, so
\* _update_session_with_tokens raises KeyError part of the way
HrvRefreshKeyError ==
    /\ fitbit_pc = "get-live-hrv"
    /\ \E outcome \in TokenOutcomes :
        /\ Truthy(refresh_fitbit_token(outcome))
        /\ update_session_with_tokens(session, outcome.body, now).raised
        /\ Refresh(outcome)
        /\ session' = update_session_with_tokens(session, outcome.body, now).session
        /\ fitbit_response' = InternalServerError
        /\ fitbit_pc' = "idle"
        /\ UNCHANGED adapter

\* lines 66-82
HrvRefreshed ==
    /\ fitbit_pc = "get-live-hrv"
    /\ \E outcome \in TokenOutcomes :
        /\ Truthy(refresh_fitbit_token(outcome))
        /\ ~update_session_with_tokens(session, outcome.body, now).raised
        /\ Refresh(outcome)
        /\ session' = update_session_with_tokens(session, outcome.body, now).session
        /\ adapter' = DictGet(outcome.body, "access_token", None)
        /\ fitbit_pc' = "route"
        /\ UNCHANGED fitbit_response

\* lines 182-185: fake data, a value of random.randint(60, 100)
HrvFakeData ==
    /\ fitbit_pc = "route"
    /\ FAKE_HRV_DATA
    /\ \E hrv_value \in {60, 100} :
           fitbit_response' =
               HrvResponse(<<[timestamp |-> Num(now), hrv_value |-> Num(hrv_value)]>>)
    /\ fitbit_pc' = "idle"
    /\ UNCHANGED <<session, now, FAKE_HRV_DATA, fitbit_request, fitbit_calls, adapter,
                   attempt_number>>
    /\ UNCHANGED <<upload_vars, query_vars, checkin_vars, concurrent_vars>>

\* what lines 186-188 and adapter lines 46-63 have in common: the profile
\* call is made, ending as outcome
Connect(outcome) ==
    /\ ~FAKE_HRV_DATA
    /\ fitbit_calls' =
           Append(fitbit_calls, Call("profile.json", "Bearer", adapter, None, outcome, now))
    /\ UNCHANGED <<session, now, FAKE_HRV_DATA, fitbit_request, adapter, attempt_number>>
    /\ UNCHANGED <<upload_vars, query_vars, checkin_vars, concurrent_vars>>

\* lines 186-189 and 196-198: connect() returns False, and the
\* HTTPException(401) of line 189 is caught by the except of line 196
HrvConnectFailed ==
    /\ fitbit_pc = "route"
    /\ \E outcome \in ProfileOutcomes :
        /\ outcome.status # "ok"
        /\ Connect(outcome)
        /\ fitbit_response' = UnexpectedError
        /\ fitbit_pc' = "idle"

\* lines 186-188: connect() returns True
HrvConnected ==
    /\ fitbit_pc = "route"
    /\ \E outcome \in ProfileOutcomes :
        /\ outcome.status = "ok"
        /\ Connect(outcome)
        /\ fitbit_pc' = "fetch"
        /\ UNCHANGED fitbit_response

\* what the attempts of fetch_data have in common (adapter lines 76-91)
Attempt(outcome) ==
    /\ fitbit_calls' =
           Append(fitbit_calls, Call("hrv", "Bearer", adapter, None, outcome, now))
    /\ attempt_number' = attempt_number + 1
    /\ UNCHANGED <<session, now, FAKE_HRV_DATA, fitbit_request, adapter>>
    /\ UNCHANGED <<upload_vars, query_vars, checkin_vars, concurrent_vars>>

\* adapter lines 65-91: the attempt raises a RequestException and another
\* attempt follows
HrvFetchRetried ==
    /\ fitbit_pc = "fetch"
    /\ \E outcome \in HrvOutcomes :
        /\ outcome.status # "ok"
        /\ ~Stop(attempt_number + 1)
        /\ Attempt(outcome)
        /\ fitbit_pc' = "fetch"
        /\ UNCHANGED fitbit_response

\* adapter lines 65-91 and lines 196-198: the last attempt raises and the
\* error is re-raised
HrvFetchGaveUp ==
    /\ fitbit_pc = "fetch"
    /\ \E outcome \in HrvOutcomes :
        /\ outcome.status # "ok"
        /\ Stop(attempt_number + 1)
        /\ Attempt(outcome)
        /\ fitbit_response' = UnexpectedError
        /\ fitbit_pc' = "idle"

\* adapter lines 94 and 108, lines 196-198: the attempt is answered and
\* normalize_data raises an AttributeError, which is not retried
HrvNormalizeError ==
    /\ fitbit_pc = "fetch"
    /\ \E outcome \in HrvOutcomes :
        /\ outcome.status = "ok"
        /\ normalize_data(outcome.body).raised
        /\ Attempt(outcome)
        /\ fitbit_response' = UnexpectedError
        /\ fitbit_pc' = "idle"

\* adapter lines 65-94 and lines 192-195
HrvFetched ==
    /\ fitbit_pc = "fetch"
    /\ \E outcome \in HrvOutcomes :
        /\ outcome.status = "ok"
        /\ ~normalize_data(outcome.body).raised
        /\ Attempt(outcome)
        /\ fitbit_response' = HrvResponse(normalize_data(outcome.body).data)
        /\ fitbit_pc' = "idle"

FitbitNext ==
    \/ Tick
    \/ Receive
    \/ LoginToFitbit
    \/ CallbackStateError
    \/ CallbackNoCode
    \/ CallbackExchangeFailed
    \/ CallbackIncompleteTokenData
    \/ CallbackKeyError
    \/ CallbackSucceeded
    \/ HrvNotAuthenticated
    \/ HrvTokenValid
    \/ HrvRefreshFailed
    \/ HrvRefreshKeyError
    \/ HrvRefreshed
    \/ HrvFakeData
    \/ HrvConnectFailed
    \/ HrvConnected
    \/ HrvFetchRetried
    \/ HrvFetchGaveUp
    \/ HrvNormalizeError
    \/ HrvFetched

FitbitSpec == FitbitInit /\ [][FitbitNext]_vars




TypeOK ==
    /\ pc \in {"idle", "forwarding", "done"}
    /\ initial_rows \in 0..MaxRows
    /\ ingested_count \in 0..MaxRows
    /\ Len(posts) <= MaxRows
    /\ columns \subseteq {"timestamp", "signal", "value", "meta"}
    /\ query_pc \in {"idle", "done"}
    /\ read_calls \in 0..1
    /\ fetch_outcome \in FetchOutcomes \cup {"none"}
    /\ Len(logger_events) <= MaxEvents
    /\ Len(filtered_events_data) <= Len(logger_events)
    /\ \A u \in Users : Len(user_memory[u]) <= maxlen
    /\ Len(checkins) <= MaxCheckIns
    /\ trend_info \in {"None", TrendNote}
    /\ now \in 0..MaxTime
    /\ FAKE_HRV_DATA \in BOOLEAN
    /\ fitbit_pc \in {"idle", "login", "callback", "get-live-hrv", "route", "fetch"}
    /\ fitbit_request \in FitbitRequests \cup {NoFitbitRequest}
    /\ Len(fitbit_calls) <= 2 + stop_after_attempt
    /\ attempt_number \in 0..stop_after_attempt
    /\ \A c \in Clients :
          /\ uploads[c].pc \in {"idle", "forwarding", "done"}
          /\ uploads[c].request \in ConcurrentRequests \cup {NoRequest}
          /\ uploads[c].initial_rows \in 0..MaxRows
          /\ uploads[c].ingested_count \in 0..Len(uploads[c].records_to_ingest)
          /\ uploads[c].next_record \in 1..(Len(uploads[c].records_to_ingest) + 1)
    /\ \A i \in 1..Len(received) : received[i].client \in Clients

----------------------------------------------------------------------------
(* Vocabulary of the properties *)

Positions(seq) == 1..Len(seq)

FailedPosts == Cardinality({i \in Positions(posts) : posts[i].outcome # "ok"})

OkPosts == Cardinality({i \in Positions(posts) : posts[i].outcome = "ok"})

Succeeded == pc = "done" /\ response.code = 200

\* the request parsed and its frame has the timestamp and signal columns, so
\* the mandatory-field rule of line 108 applies to it (columns is set only
\* for a request that parsed)
Accepted == pc # "idle" /\ MandatoryColumns \subseteq columns

\* the input row a forwarded record was made from
RowOf(post) == rows[post.payload.data.idx]

HasBothFields(r) == r.timestamp # NaN /\ r.signal # NaN

----------------------------------------------------------------------------
(* C1: for every upload that returns a success response,                  *)
(* rows_ingested + rows_dropped equals the number of rows received,        *)
(* whatever the outcomes of the forwarding calls.                          *)
C1_SumIsReceived ==
    Succeeded => response.rows_ingested + response.rows_dropped = Len(rows)

(* C1 as amended: for every upload that returns a success response,       *)
(* rows_ingested + rows_dropped + the number of failed forwarding calls    *)
(* equals the number of rows received; rows_ingested + rows_dropped        *)
(* equals it exactly when no forwarding call failed.                       *)
C1_SumPlusFailedIsReceived ==
    Succeeded =>
        /\ response.rows_ingested + response.rows_dropped + FailedPosts = Len(rows)
        /\ (response.rows_ingested + response.rows_dropped = Len(rows))
               <=> (FailedPosts = 0)

C1_Witness ==
    /\ Succeeded
    /\ FailedPosts >= 1
    /\ response.rows_ingested >= 1
    /\ response.rows_dropped >= 1

(* C2: a failed forwarding call does not abort the upload: the calls made  *)
(* are the sanitized records, each one once and in order, none skipped     *)
(* after a failure and none retried, so a finished upload has made as many *)
(* calls as there are sanitized records.                                   *)
C2_EveryRecordPostedOnce ==
    /\ Len(posts) <= Len(records_to_ingest)
    /\ \A i \in Positions(posts) : posts[i].payload = Payload(records_to_ingest[i])
    /\ pc = "forwarding" => Len(posts) = next_record - 1
    /\ Succeeded => Len(posts) = Len(records_to_ingest)

C2_Witness ==
    /\ Succeeded
    /\ Len(posts) = 3
    /\ posts[1].outcome = "Timeout"
    /\ posts[2].outcome = "HTTPError"
    /\ posts[3].outcome = "ok"

(* C3: an upload that reaches forwarding answers status "success" however  *)
(* many calls failed, and rows_ingested is the number of calls that        *)
(* succeeded: n sanitized records and k failed calls give n - k.           *)
C3_IngestedIsSucceededCalls ==
    /\ pc = "done" /\ posts # <<>> =>
           response.code = 200 /\ response.status = "success"
    /\ Succeeded =>
        /\ response.status = "success"
        /\ response.rows_ingested = OkPosts
        /\ response.rows_ingested = Len(records_to_ingest) - FailedPosts

C3_Witness ==
    /\ Succeeded
    /\ Len(records_to_ingest) = 3
    /\ FailedPosts = 2
    /\ response.rows_ingested = 1

\* the rows whose timestamp text is ISO-8601 or epoch seconds, or a number
Resolvable(cell) == cell[1] \in {"iso", "epoch", "num"}

\* the instant a timestamp cell stands for, as <<seconds, nanoseconds>>: ISO
\* text and epoch-seconds text by their meaning, a number as pandas reads it
InstantOf(cell) ==
    CASE cell[1] = "iso"   -> <<cell[2], 0>>
      [] cell[1] = "epoch" -> <<cell[2], 0>>
      [] cell[1] = "num"   -> <<cell[2] \div NsPerSec, cell[2] % NsPerSec>>

PostedInstant(post) ==
    <<post.payload.data.timestamp[2], post.payload.data.timestamp[3]>>

\* the distinct (resolved timestamp, signal) pairs of the rows that have both
\* fields and a resolvable timestamp
DistinctPairs ==
    {<<InstantOf(rows[i].timestamp), rows[i].signal>> :
        i \in {j \in Positions(rows) :
                 HasBothFields(rows[j]) /\ Resolvable(rows[j].timestamp)}}

(* C4: no two records of one upload are posted with the same (timestamp,   *)
(* signal) pair; a successful upload posts as many records as there are    *)
(* distinct (resolved timestamp, signal) pairs among the rows with both    *)
(* fields and a resolvable timestamp, and rows_dropped is rows_received    *)
(* minus that number.                                                      *)
C4_OnePostPerDistinctPair ==
    /\ \A i, j \in Positions(posts) :
           (/\ posts[i].payload.data.timestamp = posts[j].payload.data.timestamp
            /\ posts[i].payload.data.signal = posts[j].payload.data.signal)
               => i = j
    /\ Succeeded =>
        /\ Len(posts) = Cardinality(DistinctPairs)
        /\ response.rows_dropped = Len(rows) - Cardinality(DistinctPairs)
        /\ {<<PostedInstant(posts[i]), posts[i].payload.data.signal>> :
                i \in Positions(posts)} = DistinctPairs

C4_Witness ==
    /\ Succeeded
    /\ Len(rows) = 3
    /\ \A i \in Positions(rows) :
           HasBothFields(rows[i]) /\ Resolvable(rows[i].timestamp)
    /\ Len(posts) = 2
    /\ response.rows_dropped = 1
    /\ posts[1].payload.data.timestamp = posts[2].payload.data.timestamp

(* C5: the records of one upload are posted in non-decreasing order of     *)
(* resolved timestamp, records with equal timestamps in their input order, *)
(* and of the rows with one (timestamp, signal) pair the first seen is the *)
(* one kept.                                                               *)
C5_SortedStableFirstKept ==
    /\ \A i, j \in Positions(posts) :
           i < j =>
              /\ TsLeq(posts[i].payload.data.timestamp,
                       posts[j].payload.data.timestamp)
              /\ PostedInstant(posts[i]) = PostedInstant(posts[j])
                     => posts[i].payload.data.idx < posts[j].payload.data.idx
    /\ \A i \in Positions(posts), k \in Positions(rows) :
           (/\ HasBothFields(rows[k])
            /\ Resolvable(rows[k].timestamp)
            /\ InstantOf(rows[k].timestamp) = PostedInstant(posts[i])
            /\ rows[k].signal = posts[i].payload.data.signal)
               => posts[i].payload.data.idx <= k

(* C6: a row lacking timestamp or signal is never posted to the event      *)
(* logger and is counted in rows_dropped.                                  *)
C6_IncompleteRowsNeverPosted ==
    /\ \A i \in Positions(posts) : HasBothFields(RowOf(posts[i]))
    /\ Succeeded =>
        /\ response.rows_dropped >=
               Cardinality({k \in Positions(rows) : ~HasBothFields(rows[k])})
        /\ Len(posts) <=
               Cardinality({k \in Positions(rows) : HasBothFields(rows[k])})

C6_Witness ==
    /\ Succeeded
    /\ Len(rows) = 3
    /\ rows[1].timestamp = NaN /\ rows[1].signal # NaN
    /\ rows[2].signal = NaN /\ rows[2].timestamp # NaN
    /\ Len(posts) = 1
    /\ response.rows_dropped = 2

NoRowHasBothFields == \A k \in Positions(rows) : ~HasBothFields(rows[k])

UnrecognizedZone == tz_override \in ZoneNames \ KnownZones

(* C8: when no row is left after the mandatory-field rule, the upload      *)
(* returns at once with rows_ingested = 0 and rows_dropped = 0 and makes   *)
(* no forwarding call.                                                     *)
C8_EmptyReturnsZeroZero ==
    Accepted /\ NoRowHasBothFields =>
        /\ pc = "done"
        /\ posts = <<>>
        /\ response.code = 200
        /\ response.rows_ingested = 0
        /\ response.rows_dropped = 0

(* C8 as amended: when the input parses, has the timestamp and signal      *)
(* columns and no row is left after the mandatory-field rule, the upload   *)
(* returns at once with rows_ingested = 0 and rows_dropped equal to the    *)
(* number of rows received (0 only for an input without rows), and makes   *)
(* no forwarding call.                                                     *)
C8_EmptyReturnsAllDropped ==
    Accepted /\ NoRowHasBothFields =>
        /\ pc = "done"
        /\ posts = <<>>
        /\ records_to_ingest = <<>>
        /\ response.code = 200 /\ response.status = "success"
        /\ response.rows_ingested = 0
        /\ response.rows_dropped = Len(rows)

C8_Witness ==
    /\ Accepted
    /\ pc = "done"
    /\ Len(rows) = 3
    /\ NoRowHasBothFields
    /\ response.rows_dropped = 3

(* C9: every upload whose timezone override names an unrecognized zone     *)
(* ends in a request-level client error, whatever its rows (also when      *)
(* every row of the batch lacks a mandatory field), and posts no record.   *)
C9_UnknownZoneAlwaysRejected ==
    Accepted /\ UnrecognizedZone /\ rows # <<>> =>
        /\ pc = "done"
        /\ response.code = 400
        /\ posts = <<>>

(* C9 as amended: an upload that parses, has the timestamp and signal      *)
(* columns and whose timezone override names an unrecognized zone posts no *)
(* record; it ends in a request-level client error when at least one row   *)
(* has both mandatory fields, and in the success response of the empty     *)
(* batch (nothing ingested, every row dropped) when no row has.            *)
C9_UnknownZoneRejectedUnlessEmpty ==
    Accepted /\ UnrecognizedZone =>
        /\ pc = "done"
        /\ posts = <<>>
        /\ ~NoRowHasBothFields => response.code = 400
        /\ NoRowHasBothFields =>
               /\ response.code = 200
               /\ response.rows_ingested = 0
               /\ response.rows_dropped = Len(rows)

C9_Witness ==
    /\ Accepted
    /\ pc = "done"
    /\ UnrecognizedZone
    /\ Len(rows) = 3
    /\ \E k \in Positions(rows) :
           HasBothFields(rows[k]) /\ Resolvable(rows[k].timestamp)
    /\ \E k \in Positions(rows) : ~HasBothFields(rows[k])
    /\ response.code = 400

\* the UTC instant of a timestamp cell read as wall-clock time of a zone
LocalToUtc(cell, zone) ==
    <<InstantOf(cell)[1] - gettz(zone)[3], InstantOf(cell)[2]>>

(* C10: with a timezone override naming a recognized zone, each timestamp  *)
(* is read as local time of that zone and converted to UTC, and the batch  *)
(* goes on to sorting, de-duplication and forwarding with status           *)
(* "success".                                                              *)
C10_KnownZoneConvertsAndSucceeds ==
    Accepted /\ ~NoRowHasBothFields /\ tz_override \in KnownZones =>
        /\ \A i \in Positions(posts) :
               PostedInstant(posts[i]) =
                   LocalToUtc(RowOf(posts[i]).timestamp, tz_override)
        /\ pc = "done" =>
            /\ response.code = 200 /\ response.status = "success"
            /\ \A k \in Positions(rows) :
                   HasBothFields(rows[k]) /\ Resolvable(rows[k].timestamp) =>
                       \E i \in Positions(posts) :
                           /\ posts[i].payload.data.signal = rows[k].signal
                           /\ PostedInstant(posts[i]) =
                                  LocalToUtc(rows[k].timestamp, tz_override)

----------------------------------------------------------------------------
(* Vocabulary of the properties on the request *)

IsJsonRequest(req) ==
    \/ req.via = "file" /\ req.ext = "json"
    \/ req.via = "body" /\ req.content_type = "application/json"

\* the positions of the array-valued fields of a JSON object
ArrayFields(content) ==
    {i \in 1..Len(content[3]) : content[3][i][2][2] = "array"}

\* the JSON value is an array, or an object with an array-valued field
HasRecordList(content) ==
    \/ content[2] = "array"
    \/ content[2] = "object" /\ ArrayFields(content) # {}

\* the array itself, or the first array-valued field in field order
RecordListOf(content) ==
    IF content[2] = "array" THEN content[3]
    ELSE LET K == ArrayFields(content)
         IN  content[3][CHOOSE i \in K : \A j \in K : i <= j][2][3]

\* the upload ended in the error of the parsing step
ParseRejected ==
    /\ pc = "done"
    /\ response.code = 400
    /\ response.detail # TimezoneError.detail

(* C11: for JSON input (file or body), a top-level array is the record     *)
(* list, and for a top-level object the first array-valued field in field  *)
(* order is the record list; any other JSON shape (a scalar, an object     *)
(* with no array-valued field) is a client error.                          *)
C11_FirstArrayFieldIsRecordList ==
    pc # "idle" /\ IsJsonRequest(request) /\ request.content[1] = "json" =>
        IF HasRecordList(request.content)
        THEN /\ ~ParseRejected
             /\ rows = Standardized(BodyRequest("application/json",
                           JsonArray(RecordListOf(request.content)))).rows
        ELSE ParseRejected /\ posts = <<>>

MalformedContent == request.content[1] = "malformed"

UnsupportedExtension == request.via = "file" /\ request.ext \notin {"csv", "json"}

UnsupportedContentType ==
    request.via = "body" /\ request.content_type # "application/json"

UnparseableJsonShape ==
    /\ IsJsonRequest(request)
    /\ request.content[1] = "json"
    /\ ~HasRecordList(request.content)

(* C12: an upload that ends in a client input error (malformed file,       *)
(* unsupported file extension, unsupported content type, unparseable JSON  *)
(* shape, unknown timezone name) has made no forwarding call: the error is *)
(* reported for the whole batch with HTTP 400 and nothing of the batch     *)
(* reaches the event logger.                                               *)
C12_ClientErrorForwardsNothing ==
    /\ pc = "done" /\ response.code = 400 =>
           posts = <<>> /\ records_to_ingest = <<>>
    /\ pc # "idle" /\ (\/ MalformedContent
                       \/ UnsupportedExtension
                       \/ UnsupportedContentType
                       \/ UnparseableJsonShape) =>
           /\ pc = "done"
           /\ response.code = 400
           /\ posts = <<>>
    /\ pc # "idle" /\ posts # <<>> => response.code # 400

C12_Witness ==
    /\ pc = "done"
    /\ UnsupportedExtension
    /\ ~MalformedContent
    /\ response.code = 400
    /\ posts = <<>>

(* C13: every record forwarded to the event logger carries a meta field    *)
(* that is a mapping (possibly empty) and never null, also when the input  *)
(* already has a meta field that only some of the records fill in.         *)
C13_ForwardedMetaIsMapping ==
    \A i \in Positions(posts) : posts[i].payload.data.meta[1] = "dict"

\* the meta mapping has a source, and it is a value
HasSourceValue(meta) ==
    /\ meta[1] = "dict"
    /\ \E kv \in meta[2] : kv[1] = "source" /\ kv[2] # None /\ kv[2] # NaN

(* C14: each forwarding request carries type "ecg_data", the record itself *)
(* as data, and a source equal to the record's meta.source when meta has a *)
(* source value and the literal "unknown" when meta is empty or has no     *)
(* source.                                                                 *)
C14_PayloadCarriesTypeSourceData ==
    \A i \in Positions(posts) :
        LET payload == posts[i].payload
            record == records_to_ingest[i]
        IN  /\ payload.type = "ecg_data"
            /\ payload.data.idx = record.idx
            /\ payload.data.signal = record.signal
            /\ payload.data.timestamp = isoformat(record.timestamp)
            /\ payload.source =
                   IF HasSourceValue(record.meta)
                   THEN (CHOOSE kv \in record.meta[2] : kv[1] = "source")[2]
                   ELSE Str("unknown")

LegacyNames ==
    {"Timestamp", "eventType", "Event Type", "type", "ecgChannel", "ECG Channel"}

\* the canonical name a field name stands for
CanonicalName(name) ==
    CASE name = "Timestamp"                          -> "timestamp"
      [] name \in {"eventType", "Event Type", "type"} -> "signal"
      [] name \in {"ecgChannel", "ECG Channel"}      -> "value"
      [] OTHER                                       -> name

FieldNames(content) ==
    CASE content[1] = "csv" -> {content[2][j] : j \in 1..Len(content[2])}
      [] content[1] = "json" /\ content[2] = "array" ->
            UNION {DOMAIN content[3][i] : i \in 1..Len(content[3])}
      [] OTHER -> {}

UsesLegacyNames(req) == FieldNames(req.content) \cap LegacyNames # {}

CanonicalRecord(rec) ==
    [c \in {CanonicalName(k) : k \in DOMAIN rec} |->
        rec[CHOOSE k \in DOMAIN rec : CanonicalName(k) = c]]

\* the request that carries the same data under the canonical names
CanonicalTwin(req) ==
    [req EXCEPT !.content =
        CASE @[1] = "csv" ->
                Csv([j \in 1..Len(@[2]) |-> CanonicalName(@[2][j])], @[3])
          [] @[1] = "json" /\ @[2] = "array" ->
                JsonArray([i \in 1..Len(@[3]) |-> CanonicalRecord(@[3][i])])
          [] OTHER -> @]

(* C15: two inputs that carry the same data, one under legacy field names  *)
(* (Timestamp, eventType / Event Type, ecgChannel / ECG Channel, type) and *)
(* one under the canonical names (timestamp, signal, value), produce the   *)
(* same sequence of forwarded records and the same rows_ingested and       *)
(* rows_dropped: what an upload under legacy names does is what the upload *)
(* of its canonical twin does under the same outcomes of the calls.        *)
C15_LegacyNamesSameAsCanonical ==
    pc # "idle" /\ UsesLegacyNames(request) =>
        LET twin == Standardized(CanonicalTwin(request))
        IN  /\ ParseRequest(request).raised = ParseRequest(CanonicalTwin(request)).raised
            /\ columns = twin.columns
            /\ rows = twin.rows
            /\ (pc = "forwarding" \/ Succeeded) =>
                   records_to_ingest \in Sanitized(twin.rows, tz_override)
            /\ \A i \in Positions(posts) :
                   posts[i].payload = Payload(records_to_ingest[i])
            /\ Succeeded =>
                   /\ response.rows_ingested = OkPosts
                   /\ response.rows_dropped =
                          Len(twin.rows) - Len(records_to_ingest)
                   /\ Len(posts) = Len(records_to_ingest)

C15_Witness ==
    /\ Succeeded
    /\ request.via = "file" /\ request.ext = "csv"
    /\ FieldNames(request.content) = {"Timestamp", "Event Type", "ECG Channel"}
    /\ Len(posts) = 2
    /\ response.rows_ingested = 2
    /\ posts[1].payload.data.signal = Str("r_peak")
    /\ posts[1].payload.data.value = None

(* C16: sanitization is idempotent: applying the drop, sort and            *)
(* de-duplicate pass to its own output drops no record and returns the     *)
(* same sequence.                                                          *)
C16_SanitizationIdempotent ==
    Accepted /\ tz_override = NoTz =>
        \A again \in Sanitized(records_to_ingest, NoTz) :
            /\ Len(again) = Len(records_to_ingest)
            /\ again = records_to_ingest

----------------------------------------------------------------------------
(* Vocabulary of the properties on the query *)

Answered == query_pc = "done" /\ query_response.code = 200

\* since and until both carry an offset, so they name a UTC window
AwareWindow == since[3] /\ until[3]

HasEmbeddedTimestamp(evt) ==
    "event_data" \in DOMAIN evt /\ "timestamp" \in DOMAIN evt.event_data

\* the instant of the embedded timestamp, as <<seconds, nanoseconds>>
EmbeddedInstant(evt) ==
    <<evt.event_data.timestamp[2], evt.event_data.timestamp[3]>>

InstantLeq(a, b) == a[1] < b[1] \/ (a[1] = b[1] /\ a[2] <= b[2])

\* since <= t < until
InWindow(evt) ==
    /\ HasEmbeddedTimestamp(evt)
    /\ InstantLeq(<<since[2], 0>>, EmbeddedInstant(evt))
    /\ ~InstantLeq(<<until[2], 0>>, EmbeddedInstant(evt))

\* the positions, in fetch order, of the raw events in the window
WindowPositions == {i \in Positions(logger_events) : InWindow(logger_events[i])}

SurfacedKinds == {Str("r_peak"), Str("st_elev"), Str("marked_event")}

IsSurfaced(evt) ==
    "signal" \in DOMAIN evt.event_data /\ evt.event_data.signal \in SurfacedKinds

\* the positions of the in-window raw events of a surfaced kind
SurfacedPositions == {i \in WindowPositions : IsSurfaced(logger_events[i])}

\* the elements of a set of positions in increasing order
InOrder(K) == RowsAt([i \in Positions(logger_events) |-> i], K)

NullMeta(evt) ==
    "meta" \in DOMAIN evt.event_data /\ evt.event_data.meta = None

(* C17: the event query considers exactly the raw events whose embedded    *)
(* timestamp t satisfies since <= t < until: an event at t == since is     *)
(* inside the window, an event at t == until is outside, and an event with *)
(* no embedded timestamp is excluded without an error.                     *)
C17_WindowIsHalfOpen ==
    query_pc = "done" /\ fetch_outcome = "ok" /\ AwareWindow =>
        /\ Len(filtered_events_data) = Cardinality(WindowPositions)
        /\ \A k \in Positions(filtered_events_data) :
               filtered_events_data[k] =
                   logger_events[InOrder(WindowPositions)[k]].event_data
        /\ \A i \in Positions(logger_events) :
               HasEmbeddedTimestamp(logger_events[i]) =>
                   /\ EmbeddedInstant(logger_events[i]) = <<since[2], 0>>
                      /\ since[2] < until[2] => i \in WindowPositions
                   /\ EmbeddedInstant(logger_events[i]) = <<until[2], 0>>
                          => i \notin WindowPositions
        /\ (\A i \in SurfacedPositions : ~NullMeta(logger_events[i]))
               => query_response.code = 200

C17_Witness ==
    /\ Answered
    /\ AwareWindow
    /\ Len(logger_events) = 3
    /\ \E i \in Positions(logger_events) :
           /\ HasEmbeddedTimestamp(logger_events[i])
           /\ EmbeddedInstant(logger_events[i]) = <<since[2], 0>>
    /\ \E i \in Positions(logger_events) :
           /\ HasEmbeddedTimestamp(logger_events[i])
           /\ EmbeddedInstant(logger_events[i]) = <<until[2], 0>>
    /\ \E i \in Positions(logger_events) : ~HasEmbeddedTimestamp(logger_events[i])
    /\ Len(filtered_events_data) = 1

\* the number of entries of a sequence that satisfy a test on (type, timestamp)
CountOf(kind, text, seq, kindOf(_), textOf(_)) ==
    Cardinality({k \in Positions(seq) : kindOf(seq[k]) = kind /\ textOf(seq[k]) = text})

RawKind(evt) == evt.event_data.signal
RawText(evt) == evt.event_data.timestamp
EntryKind(entry) == entry.type
EntryText(entry) == entry.timestamp

(* C18: the events returned by a query are exactly the in-window raw       *)
(* events whose signal is r_peak, st_elev or marked_event, one projection  *)
(* per such event; events with signal ecg, st_depr or any unknown value    *)
(* are left out without an error, and count equals the number of returned  *)
(* events.                                                                 *)
C18_OnlySurfacedKindsReturned ==
    /\ Answered =>
        /\ query_response.count = Len(query_response.events)
        /\ Len(query_response.events) = Cardinality(SurfacedPositions)
        /\ \A k \in Positions(query_response.events) :
               query_response.events[k].type \in SurfacedKinds
        /\ \A i \in SurfacedPositions :
               CountOf(RawKind(logger_events[i]), RawText(logger_events[i]),
                       query_response.events, EntryKind, EntryText)
                 = Cardinality({j \in SurfacedPositions :
                       /\ RawKind(logger_events[j]) = RawKind(logger_events[i])
                       /\ RawText(logger_events[j]) = RawText(logger_events[i])})
    /\ (/\ query_pc = "done" /\ fetch_outcome = "ok" /\ AwareWindow
        /\ \A i \in SurfacedPositions : ~NullMeta(logger_events[i]))
           => query_response.code = 200

C18_Witness ==
    /\ Answered
    /\ Len(logger_events) = 3
    /\ WindowPositions = {1, 2, 3}
    /\ {logger_events[i].event_data.signal : i \in WindowPositions}
           = {Str("r_peak"), Str("ecg"), Str("st_depr")}
    /\ query_response.count = 1
    /\ query_response.events[1].type = Str("r_peak")

(* C19: the events of a query result appear in the order in which the      *)
(* event logger returned them (fetch order), restricted to the window and  *)
(* the surfaced kinds; the query never re-sorts them by timestamp.         *)
C19_ResultInFetchOrder ==
    Answered =>
        /\ Len(query_response.events) = Len(InOrder(SurfacedPositions))
        /\ \A k \in Positions(query_response.events) :
               LET evt == logger_events[InOrder(SurfacedPositions)[k]]
               IN  /\ query_response.events[k].type = evt.event_data.signal
                   /\ query_response.events[k].timestamp = evt.event_data.timestamp

C19_Witness ==
    /\ Answered
    /\ Len(query_response.events) = 3
    /\ query_response.events[1].timestamp = <<"isostr", 2, 0>>
    /\ query_response.events[2].timestamp = <<"isostr", 0, 0>>
    /\ query_response.events[3].timestamp = <<"isostr", 1, 0>>

(* C20: when the fetch from the event logger fails on the read path        *)
(* (logger unreachable or non-2xx), the whole query fails with an error    *)
(* response (HTTP 502) and returns no partial event list.                  *)
C20_FetchFailureIsBadGateway ==
    query_pc = "done" /\ fetch_outcome \in {"ConnectionError", "HTTPError"} =>
        /\ query_response.code = 502
        /\ "events" \notin DOMAIN query_response
        /\ filtered_events_data = <<>>

C20_Witness ==
    /\ query_pc = "done"
    /\ fetch_outcome = "HTTPError"
    /\ AwareWindow
    /\ SurfacedPositions = {1, 2, 3}
    /\ query_response.code = 502

\* the value of a key of the raw event's meta, null when the event has no
\* meta or the meta has no such key
RawMeta(evt, key) ==
    IF /\ "meta" \in DOMAIN evt.event_data
       /\ evt.event_data.meta[1] = "dict"
       /\ \E p \in evt.event_data.meta[2] : p[1] = key
    THEN (CHOOSE p \in evt.event_data.meta[2] : p[1] = key)[2]
    ELSE None

\* a field of the raw event, null when the event does not have it
RawField(evt, key) ==
    IF key \in DOMAIN evt.event_data THEN evt.event_data[key] ELSE None

(* C30: each projection copies its fields from the raw event: r_peak       *)
(* carries timestamp, source = meta.source and the constant placeholder    *)
(* hr_estimate_bpm (the same value for every r_peak); st_elev carries      *)
(* magnitude_mv = value, lead = meta.lead and source; marked_event carries *)
(* label = meta.label and source; type always equals the event's signal.   *)
C30_ProjectionCopiesRawFields ==
    Answered =>
        /\ Len(query_response.events) = Len(InOrder(SurfacedPositions))
        /\ \A k \in Positions(query_response.events) :
               LET evt == logger_events[InOrder(SurfacedPositions)[k]]
                   entry == query_response.events[k]
               IN  /\ entry.type = evt.event_data.signal
                   /\ entry.timestamp = evt.event_data.timestamp
                   /\ entry.source = RawMeta(evt, "source")
                   /\ entry.type = Str("r_peak") =>
                          /\ DOMAIN entry =
                                 {"timestamp", "type", "hr_estimate_bpm", "source"}
                          /\ entry.hr_estimate_bpm = hr_estimate_bpm
                   /\ entry.type = Str("st_elev") =>
                          /\ DOMAIN entry =
                                 {"timestamp", "type", "magnitude_mv", "lead", "source"}
                          /\ entry.magnitude_mv = RawField(evt, "value")
                          /\ entry.lead = RawMeta(evt, "lead")
                   /\ entry.type = Str("marked_event") =>
                          /\ DOMAIN entry = {"timestamp", "type", "label", "source"}
                          /\ entry.label = RawMeta(evt, "label")
        /\ \A j, k \in Positions(query_response.events) :
               /\ query_response.events[j].type = Str("r_peak")
               /\ query_response.events[k].type = Str("r_peak")
               => query_response.events[j].hr_estimate_bpm
                      = query_response.events[k].hr_estimate_bpm

C30_Witness ==
    /\ Answered
    /\ Len(query_response.events) = 3
    /\ query_response.events[1].type = Str("r_peak")
    /\ query_response.events[1].source = Str("dev")
    /\ query_response.events[2].type = Str("st_elev")
    /\ query_response.events[2].magnitude_mv = <<"num", 2>>
    /\ query_response.events[2].lead = Str("II")
    /\ query_response.events[3].type = Str("marked_event")
    /\ query_response.events[3].label = Str("dizzy")
    /\ query_response.events[3].source = None

----------------------------------------------------------------------------
(* Vocabulary of the properties on the check-ins *)

\* the check-ins of one user, in arrival order
CheckInsOf(u) == SelectSeq(checkins, LAMBDA d : d.user_id = u)

\* the last n entries of a sequence, all of them when it is shorter
LastOf(seq, n) ==
    IF Len(seq) <= n THEN seq ELSE SubSeq(seq, Len(seq) - n + 1, Len(seq))

(* C29: after any sequence of check-ins, the stored history of each user   *)
(* holds at most 3 entries, namely that user's most recent check-ins in    *)
(* arrival order with the oldest evicted when a fourth arrives, and a      *)
(* check-in of one user never changes the history of another user.         *)
C29_HistoryIsLastThreeOfUser ==
    \A u \in Users :
        /\ Len(user_memory[u]) <= 3
        /\ user_memory[u] = LastOf(CheckInsOf(u), 3)

C29_Witness ==
    /\ Len(CheckInsOf("u1")) = 4
    /\ Len(user_memory["u1"]) = 3
    /\ user_memory["u1"][1] = checkins[2]
    /\ user_memory["u1"][1] # checkins[1]
    /\ user_memory["u2"] = <<>>

----------------------------------------------------------------------------
(* Vocabulary of the properties on the Fitbit routes *)

TokenKeys == {"fitbit_access_token", "fitbit_refresh_token", "fitbit_token_expires_at"}

\* the token fields of a session, None for a field it does not have
TokenFields(sess) == [k \in TokenKeys |-> SessionGet(sess, k, None)]

\* the callback request has been answered (the session keeps its stored
\* state through a callback)
CallbackServed == fitbit_pc = "idle" /\ fitbit_request.route = "callback"

StoredState == SessionGet(session, "fitbit_oauth_state", None)

StateMatches == fitbit_request.state # None /\ fitbit_request.state = StoredState

\* the positions of the calls made to an endpoint
CallsTo(api, grant) ==
    {i \in Positions(fitbit_calls) :
        fitbit_calls[i].api = api /\ fitbit_calls[i].grant = grant}

ExchangeCalls == CallsTo("oauth2/token", "authorization_code")

CompleteTokenData(token_data) ==
    /\ token_data # None
    /\ HasKey(token_data, "access_token")
    /\ HasKey(token_data, "refresh_token")
    /\ HasKey(token_data, "expires_in")

\* the exchange call was answered 2xx with a complete payload
ExchangeSucceeded ==
    /\ Len(fitbit_calls) = 1
    /\ ExchangeCalls = {1}
    /\ fitbit_calls[1].status = "ok"
    /\ CompleteTokenData(fitbit_calls[1].body)

ExchangeIncomplete ==
    /\ Len(fitbit_calls) = 1
    /\ ExchangeCalls = {1}
    /\ fitbit_calls[1].status = "ok"
    /\ \/ ~HasKey(fitbit_calls[1].body, "access_token")
       \/ ~HasKey(fitbit_calls[1].body, "refresh_token")

ExchangeFailed ==
    /\ Len(fitbit_calls) = 1
    /\ ExchangeCalls = {1}
    /\ fitbit_calls[1].status \in {"HTTPError", "ConnectionError"}

(* C24: when the token-exchange request itself fails (transport error or   *)
(* non-2xx status), the callback redirects to the frontend with            *)
(* fitbit_status=error_token and the session's token fields are left       *)
(* unchanged.                                                              *)
C24_FailedExchangeRedirectsErrorToken ==
    /\ [](CallbackServed =>
            /\ ExchangeFailed => fitbit_response = Redirect("error_token")
            /\ fitbit_response = Redirect("error_token") => ExchangeFailed)
    /\ [][(/\ fitbit_pc = "callback"
           /\ fitbit_pc' = "idle"
           /\ ExchangeFailed')
             => TokenFields(session') = TokenFields(session)]_vars

C24_Witness ==
    /\ CallbackServed
    /\ ExchangeFailed
    /\ fitbit_calls[1].status = "HTTPError"
    /\ SessionGet(session, "fitbit_access_token", None) = Str("a1")
    /\ fitbit_response = Redirect("error_token")

\* a get-live-hrv request is being served or was the last one served
HrvRequest == fitbit_request.route = "get-live-hrv"

\* the session has both tokens
HasTokens(sess) ==
    /\ SessionGet(sess, "fitbit_access_token", None) # None
    /\ SessionGet(sess, "fitbit_refresh_token", None) # None

\* now > expires_at - 300, a session without an expiry counting as 0
ExpiresSoon(t, sess) ==
    t > SessionGet(sess, "fitbit_token_expires_at", Num(0))[2] - 300

RefreshCalls == CallsTo("oauth2/token", "refresh_token")

DataCalls == CallsTo("profile.json", "Bearer") \cup CallsTo("hrv", "Bearer")

\* the refresh call was answered 2xx with a complete payload
RefreshSucceeded ==
    /\ RefreshCalls = {1}
    /\ fitbit_calls[1].status = "ok"
    /\ CompleteTokenData(fitbit_calls[1].body)

(* C25: when the session's access token is expired or expires within 300   *)
(* seconds (now > expires_at - 300), a get-live-hrv request makes exactly  *)
(* one refresh call with the session's refresh token before any Fitbit     *)
(* data call, stores the new access token, refresh token and expiry in the *)
(* session, and uses the new access token for the Fitbit calls that        *)
(* follow; when now <= expires_at - 300 it makes no refresh call and uses  *)
(* the session's access token.                                             *)
C25_RefreshOnceBeforeDataCalls ==
    /\ [][(fitbit_pc = "get-live-hrv" /\ fitbit_pc' # "get-live-hrv"
              /\ HasTokens(session)) =>
            /\ ExpiresSoon(now, session) =>
                  /\ Len(fitbit_calls') = 1
                  /\ RefreshCalls' = {1}
                  /\ fitbit_calls'[1].credential =
                         SessionGet(session, "fitbit_refresh_token", None)
                  /\ RefreshSucceeded' =>
                        /\ TokenFields(session') =
                               [k \in TokenKeys |->
                                   CASE k = "fitbit_access_token" ->
                                            DictGet(fitbit_calls'[1].body,
                                                    "access_token", None)
                                     [] k = "fitbit_refresh_token" ->
                                            DictGet(fitbit_calls'[1].body,
                                                    "refresh_token", None)
                                     [] k = "fitbit_token_expires_at" ->
                                            Num(now + DictGet(fitbit_calls'[1].body,
                                                              "expires_in", None)[2])]
                        /\ adapter' = DictGet(fitbit_calls'[1].body, "access_token", None)
                        /\ fitbit_pc' = "route"
            /\ ~ExpiresSoon(now, session) =>
                  /\ fitbit_calls' = <<>>
                  /\ session' = session
                  /\ adapter' = SessionGet(session, "fitbit_access_token", None)
                  /\ fitbit_pc' = "route"]_vars
    /\ [](HrvRequest =>
            /\ RefreshCalls \subseteq {1}
            /\ \A i \in DataCalls :
                  /\ fitbit_calls[i].credential = adapter
                  /\ adapter = SessionGet(session, "fitbit_access_token", None)
                  /\ RefreshCalls = {1} =>
                        /\ RefreshSucceeded
                        /\ adapter = DictGet(fitbit_calls[1].body, "access_token", None))

C25_Witness ==
    /\ HrvRequest
    /\ fitbit_pc = "idle"
    /\ Len(fitbit_calls) = 3
    /\ RefreshSucceeded
    /\ fitbit_calls[1].credential = Str("r1")
    /\ fitbit_calls[1].body = TokenDict("a2", "r2", 301)
    /\ fitbit_calls[2].api = "profile.json"
    /\ fitbit_calls[2].credential = Str("a2")
    /\ fitbit_calls[3].api = "hrv"
    /\ fitbit_calls[3].credential = Str("a2")
    /\ SessionGet(session, "fitbit_refresh_token", None) = Str("r2")
    /\ fitbit_response.code = 200

\* the refresh call got an error status or no answer
RefreshFailed ==
    /\ RefreshCalls = {1}
    /\ fitbit_calls[1].status \in {"HTTPError", "ConnectionError"}

ReAuthenticate ==
    HTTPException(401, "Could not refresh Fitbit token. Please re-authenticate to reconnect your account.")

(* C26: when a token refresh is needed and the refresh call fails,         *)
(* get-live-hrv responds with HTTP 401 asking the user to re-authenticate, *)
(* makes no call to the Fitbit data API, and leaves the session's token    *)
(* fields unchanged.                                                       *)
C26_FailedRefreshIs401 ==
    /\ [](HrvRequest /\ RefreshFailed =>
            /\ fitbit_pc = "idle"
            /\ fitbit_response = ReAuthenticate
            /\ DataCalls = {})
    /\ [][(/\ fitbit_pc = "get-live-hrv"
           /\ fitbit_pc' # "get-live-hrv"
           /\ HasTokens(session)
           /\ ExpiresSoon(now, session)
           /\ RefreshFailed')
             => TokenFields(session') = TokenFields(session)]_vars

C26_Witness ==
    /\ HrvRequest
    /\ fitbit_pc = "idle"
    /\ RefreshFailed
    /\ fitbit_calls[1].status = "HTTPError"
    /\ fitbit_calls[1].credential = Str("r1")
    /\ SessionGet(session, "fitbit_access_token", None) = Str("a1")
    /\ fitbit_response = ReAuthenticate

\* the attempts of fetch_data, as positions of the call log
HrvCalls == CallsTo("hrv", "Bearer")

AttemptFailed(i) == fitbit_calls[i].status \in {"HTTPError", "ConnectionError"}

\* the body of the answer can be normalized (an entry whose value is no
\* mapping cannot)
Normalizable(raw_data) ==
    \A i \in Positions(DictGet(raw_data, "hrv", <<>>)) :
        LET entry == DictGet(raw_data, "hrv", <<>>)[i]
        IN  (entry[1] = "dict" /\ HasKey(entry, "value") /\ HasKey(entry, "timestamp"))
                => DictGet(entry, "value", None)[1] = "dict"

(* C27: fetch_data makes at most three attempts against the Fitbit HRV     *)
(* endpoint: it retries after a failed attempt (for example HTTP 429),     *)
(* returns the normalized data of the first attempt that succeeds, and     *)
(* makes no attempt after a success; when all three attempts fail the      *)
(* error propagates and get-live-hrv responds with an error instead of     *)
(* data.                                                                   *)
C27_AtMostThreeAttempts ==
    HrvRequest =>
        /\ Cardinality(HrvCalls) <= 3
        /\ \A i, j \in HrvCalls : i < j => AttemptFailed(i)
        /\ fitbit_pc = "fetch" =>
              /\ Cardinality(HrvCalls) < 3
              /\ \A i \in HrvCalls : AttemptFailed(i)
        /\ (fitbit_pc = "idle" /\ HrvCalls # {}) =>
              LET last == fitbit_calls[Len(fitbit_calls)]
              IN  /\ Len(fitbit_calls) \in HrvCalls
                  /\ AttemptFailed(Len(fitbit_calls)) =>
                        /\ Cardinality(HrvCalls) = 3
                        /\ fitbit_response.code >= 400
                        /\ "data" \notin DOMAIN fitbit_response
                  /\ (last.status = "ok" /\ Normalizable(last.body)) =>
                        fitbit_response = HrvResponse(normalize_data(last.body).data)

C27_Witness ==
    /\ HrvRequest
    /\ fitbit_pc = "idle"
    /\ Len(fitbit_calls) = 4
    /\ fitbit_calls[1].api = "profile.json"
    /\ HrvCalls = {2, 3, 4}
    /\ fitbit_calls[2].status = "HTTPError"
    /\ fitbit_calls[3].status = "HTTPError"
    /\ fitbit_calls[4].status = "ok"
    /\ fitbit_response.code = 200
    /\ Len(fitbit_response.data) = 1
    /\ fitbit_response.data[1].hrv_value = <<"float", 80>>

\* the HRV entries of a body, none when it has no "hrv" key
EntriesOf(raw_data) == DictGet(raw_data, "hrv", <<>>)

\* the value.deep of an entry, None when the entry has no value, the value
\* is no mapping or the mapping has no deep
DeepOf(entry) ==
    IF entry[1] = "dict" /\ HasKey(entry, "value")
           /\ DictGet(entry, "value", None)[1] = "dict"
    THEN DictGet(DictGet(entry, "value", None), "deep", None)
    ELSE None

TimestampOf(entry) ==
    IF entry[1] = "dict" THEN DictGet(entry, "timestamp", None) ELSE None

\* the entry has a timestamp and a non-null value.deep and both pass
\* validation (a date text, a number)
IsValidEntry(entry) ==
    /\ TimestampOf(entry) # None
    /\ DeepOf(entry) # None
    /\ TimestampOf(entry)[1] = "iso"
    /\ DeepOf(entry)[1] = "num"

\* the positions of the valid entries, in input order
ValidPositions(raw_data) ==
    RowsAt([i \in Positions(EntriesOf(raw_data)) |-> i],
           {i \in Positions(EntriesOf(raw_data)) : IsValidEntry(EntriesOf(raw_data)[i])})

\* the last call is an attempt of fetch_data that was answered 2xx
FetchAnswered ==
    /\ HrvRequest
    /\ fitbit_pc = "idle"
    /\ fitbit_calls # <<>>
    /\ Len(fitbit_calls) \in HrvCalls
    /\ fitbit_calls[Len(fitbit_calls)].status = "ok"

(* C28: normalize_data returns, in input order, exactly one entry for each *)
(* HRV entry that has both a timestamp and a non-null value.deep and       *)
(* passes validation; malformed entries are discarded without failing the  *)
(* call, so an empty or all-malformed payload yields an empty list and a   *)
(* successful response.                                                    *)
C28_MalformedEntriesDiscarded ==
    FetchAnswered =>
        LET raw_data == fitbit_calls[Len(fitbit_calls)].body
            valid == ValidPositions(raw_data)
        IN  /\ fitbit_response.code = 200
            /\ fitbit_response.status = "success"
            /\ Len(fitbit_response.data) = Len(valid)
            /\ \A k \in Positions(valid) :
                  LET entry == EntriesOf(raw_data)[valid[k]]
                  IN  /\ fitbit_response.data[k].hrv_value = <<"float", DeepOf(entry)[2]>>
                      /\ fitbit_response.data[k].timestamp =
                             <<"datetime", TimestampOf(entry)[2], TRUE>>

\* a query was served
QueryServed == query_pc = "done"

(* C31: a query makes exactly one read call (fetch-all) to the event       *)
(* logger and no write call; the events held by the logger are the same    *)
(* before and after any query.                                             *)
C31_QueryReadsOnceWritesNothing ==
    /\ [](QueryServed => read_calls = 1 /\ posts = <<>>)
    /\ [][(query_pc = "idle" /\ query_pc' = "done")
             => /\ logger_events' = logger_events
                /\ posts' = posts]_vars

C31_Witness ==
    /\ QueryServed
    /\ Len(logger_events) = 3
    /\ read_calls = 1
    /\ query_response.code = 200
    /\ query_response.count = 2

\* the request parsed and its frame has no timestamp column after the
\* renaming of lines 80-87
NoTimestampField ==
    /\ pc # "idle"
    /\ ~ParseRequest(request).raised
    /\ "timestamp" \notin columns

(* C32: when the records have no timestamp field after reconciliation, the *)
(* upload fails as a whole and no record is forwarded.                     *)
C32_NoTimestampFieldFailsUpload ==
    NoTimestampField =>
        /\ pc = "done"
        /\ response.code >= 400
        /\ records_to_ingest = <<>>
        /\ posts = <<>>

C32_Witness ==
    /\ NoTimestampField
    /\ "signal" \in columns
    /\ Len(rows) = 2
    /\ response = InternalServerError
    /\ posts = <<>>

\* the forwarding calls of request c, in the order the event logger served
\* them
OwnCalls(c) == SelectSeq(received, LAMBDA call : call.client = c)

OkCount(calls) == Cardinality({i \in 1..Len(calls) : calls[i].outcome = "ok"})

\* the success responses an upload can give for its own input and the
\* outcomes of its own calls, one for each order the sort may leave ties in
ResultsOf(req, tz, calls) ==
    LET df == Standardized(req)
    IN  IF Cleaned(df.rows) = <<>>
        THEN {SuccessResponse(0, Len(df.rows))}
        ELSE {SuccessResponse(OkCount(calls), Len(df.rows) - Len(recs)) :
                  recs \in Sanitized(df.rows, tz)}

ConcurrentSucceeded(c) == uploads[c].pc = "done" /\ uploads[c].response.code = 200

(* C33: uploads that run concurrently do not affect each other's results:  *)
(* the rows_ingested and rows_dropped of each upload depend only on its    *)
(* own input and on the outcomes of its own forwarding calls, under every  *)
(* interleaving of the requests.                                           *)
C33_ConcurrentUploadsIndependent ==
    \A c \in Clients :
        ConcurrentSucceeded(c) =>
            LET results == ResultsOf(uploads[c].request, uploads[c].tz_override,
                                     OwnCalls(c))
            IN  /\ Cardinality(results) = 1
                /\ uploads[c].response \in results

C33_Witness ==
    /\ ConcurrentSucceeded("a")
    /\ ConcurrentSucceeded("b")
    /\ Len(received) = 3
    /\ received[1].client = "a" /\ received[1].outcome = "ok"
    /\ received[2].client = "b" /\ received[2].outcome = "Timeout"
    /\ received[3].client = "a" /\ received[3].outcome = "ok"
    /\ uploads["a"].response = SuccessResponse(2, 0)
    /\ uploads["b"].response = SuccessResponse(0, 2)

\* the breath rates of the last three check-ins of a user are strictly
\* increasing
RisingOverLastThree(mine) ==
    LET last == LastOf(mine, 3)
    IN  /\ last[1].breath_rate < last[2].breath_rate
        /\ last[2].breath_rate < last[3].breath_rate

(* C34: a breath check-in is stored before the trend is computed, so the   *)
(* trend is evaluated over the user's last three check-ins including the   *)
(* current one: the rising-trend note is passed to the response generator  *)
(* exactly when the user has at least three stored check-ins and the       *)
(* breath rates of the last three are strictly increasing; otherwise no    *)
(* trend note is passed.                                                   *)
C34_TrendOverLastThreeWithCurrent ==
    checkins # <<>> =>
        LET data == checkins[Len(checkins)]
            mine == CheckInsOf(data.user_id)
            stored == user_memory[data.user_id]
        IN  /\ stored # <<>>
            /\ stored[Len(stored)] = data
            /\ IF Len(mine) >= 3 /\ RisingOverLastThree(mine)
               THEN trend_info = TrendNote
               ELSE trend_info = "None"
            /\ checkin_response.code = 200 =>
                   checkin_response.message[4] = trend_info

C34_Witness ==
    /\ Len(checkins) = 4
    /\ checkins[1].user_id = "u1" /\ checkins[1].breath_rate = 14
    /\ checkins[2].user_id = "u2" /\ checkins[2].breath_rate = 16
    /\ checkins[3].user_id = "u1" /\ checkins[3].breath_rate = 15
    /\ checkins[4].user_id = "u1" /\ checkins[4].breath_rate = 16
    /\ trend_info = TrendNote
    /\ checkin_response.code = 200

\* the profile call of connect() was the last call of a get-live-hrv
\* request that was served, and it failed
ConnectFailed ==
    /\ HrvRequest
    /\ fitbit_pc = "idle"
    /\ fitbit_calls # <<>>
    /\ fitbit_calls[Len(fitbit_calls)].api = "profile.json"
    /\ fitbit_calls[Len(fitbit_calls)].status # "ok"

(* C35: when the adapter's connect() reports failure (token invalid or     *)
(* Fitbit unreachable), get-live-hrv responds with HTTP 401 "Failed to     *)
(* connect to Fitbit API" and does not call fetch_data.                    *)
C35_ConnectFailureIs401 ==
    ConnectFailed =>
        /\ fitbit_response =
               HTTPException(401, "Failed to connect to Fitbit API. Token may be invalid or expired.")
        /\ CallsTo("hrv", "Bearer") = {}

\* the answer of line 64
NotAuthenticatedResponse == HTTPException(401, "User not authenticated with Fitbit.")

(* C36: a get-live-hrv request from a session that lacks the access token  *)
(* or the refresh token is rejected with HTTP 401 before any refresh call  *)
(* and before any Fitbit data call, and the session is left unchanged.     *)
C36_MissingTokenIs401WithoutCalls ==
    [][(fitbit_pc = "get-live-hrv" /\ ~HasTokens(session))
          => /\ fitbit_pc' = "idle"
             /\ fitbit_response' = NotAuthenticatedResponse
             /\ fitbit_calls = <<>>
             /\ fitbit_calls' = <<>>
             /\ session' = session]_vars

C36_Witness ==
    /\ HrvRequest
    /\ fitbit_pc = "idle"
    /\ fitbit_response = NotAuthenticatedResponse
    /\ HasKey(session, "fitbit_oauth_state")
    /\ ~HasTokens(session)
    /\ session # Dict({})
    /\ fitbit_calls = <<>>

====
